---- MODULE Spec2Model ----
(***************************************************************************)
(* A model of the JSON text engine: the number classifier, the scanner     *)
(* (Tokenizer), the recursive-descent parser and the stringifier.          *)
(*                                                                         *)
(* Characters are Unicode code points (Rust's char), so text is a sequence *)
(* of naturals.  64-bit integers and the values of 64-bit floats do not    *)
(* fit the checker's integers; they are kept as sequences of decimal       *)
(* digits, most significant first, and computed with digit arithmetic.     *)
(***************************************************************************)
EXTENDS Integers, Sequences, FiniteSets, TLC

VARIABLES build, hasher, pc, input, tokenizer, token, result, text, result2, number

vars == <<build, hasher, pc, input, tokenizer, token, result, text, result2, number>>

----------------------------------------------------------------------------
(* Characters *)

\* The code point of each printable ASCII character.
CodePoint ==
    " " :> 32 @@ "!" :> 33 @@ "\"" :> 34 @@ "#" :> 35 @@ "$" :> 36 @@
    "%" :> 37 @@ "&" :> 38 @@ "'" :> 39 @@ "(" :> 40 @@ ")" :> 41 @@
    "*" :> 42 @@ "+" :> 43 @@ "," :> 44 @@ "-" :> 45 @@ "." :> 46 @@
    "/" :> 47 @@ "0" :> 48 @@ "1" :> 49 @@ "2" :> 50 @@ "3" :> 51 @@
    "4" :> 52 @@ "5" :> 53 @@ "6" :> 54 @@ "7" :> 55 @@ "8" :> 56 @@
    "9" :> 57 @@ ":" :> 58 @@ ";" :> 59 @@ "<" :> 60 @@ "=" :> 61 @@
    ">" :> 62 @@ "?" :> 63 @@ "@" :> 64 @@ "A" :> 65 @@ "B" :> 66 @@
    "C" :> 67 @@ "D" :> 68 @@ "E" :> 69 @@ "F" :> 70 @@ "G" :> 71 @@
    "H" :> 72 @@ "I" :> 73 @@ "J" :> 74 @@ "K" :> 75 @@ "L" :> 76 @@
    "M" :> 77 @@ "N" :> 78 @@ "O" :> 79 @@ "P" :> 80 @@ "Q" :> 81 @@
    "R" :> 82 @@ "S" :> 83 @@ "T" :> 84 @@ "U" :> 85 @@ "V" :> 86 @@
    "W" :> 87 @@ "X" :> 88 @@ "Y" :> 89 @@ "Z" :> 90 @@ "[" :> 91 @@
    "\\" :> 92 @@ "]" :> 93 @@ "^" :> 94 @@ "_" :> 95 @@
    "a" :> 97 @@ "b" :> 98 @@ "c" :> 99 @@ "d" :> 100 @@ "e" :> 101 @@
    "f" :> 102 @@ "g" :> 103 @@ "h" :> 104 @@ "i" :> 105 @@ "j" :> 106 @@
    "k" :> 107 @@ "l" :> 108 @@ "m" :> 109 @@ "n" :> 110 @@ "o" :> 111 @@
    "p" :> 112 @@ "q" :> 113 @@ "r" :> 114 @@ "s" :> 115 @@ "t" :> 116 @@
    "u" :> 117 @@ "v" :> 118 @@ "w" :> 119 @@ "x" :> 120 @@ "y" :> 121 @@
    "z" :> 122 @@ "{" :> 123 @@ "|" :> 124 @@ "}" :> 125 @@ "~" :> 126

\* The text of a sequence of one-character strings, as code points.
Str(cs) == [i \in 1..Len(cs) |-> CodePoint[cs[i]]]

\* const EOF: char = '\u{0}'
EOF == 0

BACKSPACE == 8
TAB == 9
LF == 10
FORMFEED == 12
CR == 13

----------------------------------------------------------------------------
(* Naturals as sequences of decimal digits, most significant first *)

\* d without its leading zeros
StripZeros(d) ==
    LET nz == {i \in 1..Len(d) : d[i] # 0}
    IN  IF nz = {} THEN <<0>>
        ELSE SubSeq(d, CHOOSE i \in nz : \A j \in nz : i <= j, Len(d))

Zeros(n) == [i \in 1..n |-> 0]

\* a < b, for naturals without leading zeros
NatLess(a, b) ==
    IF Len(a) # Len(b) THEN Len(a) < Len(b)
    ELSE \E i \in 1..Len(a) : a[i] < b[i] /\ \A j \in 1..(i - 1) : a[j] = b[j]

NatLeq(a, b) == ~NatLess(b, a)

NatIsZero(d) == \A i \in 1..Len(d) : d[i] = 0

\* the decimal digits of a small natural n
IntDigits(n) ==
    LET len == CHOOSE k \in 1..9 : n < 10^k /\ (k = 1 \/ n >= 10^(k - 1))
    IN  [i \in 1..len |-> (n \div 10^(len - i)) % 10]

\* the digits of d in blocks of six, least significant block last: the value
\* of block j of nb blocks
BlockOf(d, nb, j) ==
    LET at(i) == IF i >= 1 THEN d[i] ELSE 0
        last == Len(d) - 6 * (nb - j)
    IN  at(last - 5) * 100000 + at(last - 4) * 10000 + at(last - 3) * 1000
            + at(last - 2) * 100 + at(last - 1) * 10 + at(last)

\* the six digits of a block value
BlockDigits(b) == [i \in 1..6 |-> (b \div 10^(6 - i)) % 10]

\* d * m + k, for a multiplier m <= 2048 and a small addend k, computed in
\* blocks of six digits.  carry[j] is the carry out of block j; it is at
\* most m + k, and where the block gives the same carry for every carry
\* into it, the blocks below are not looked at.
NatMulAdd(d, m, k) ==
    IF NatIsZero(d) THEN IntDigits(k) ELSE
    LET nb == (Len(d) + 5) \div 6
        carry[j \in 1..(nb + 1)] ==
            IF j = nb + 1 THEN k
            ELSE IF (BlockOf(d, nb, j) * m) \div 1000000
                        = (BlockOf(d, nb, j) * m + m + k) \div 1000000
            THEN (BlockOf(d, nb, j) * m) \div 1000000
            ELSE (BlockOf(d, nb, j) * m + carry[j + 1]) \div 1000000
    IN  StripZeros(IntDigits(carry[1])
            \o [i \in 1..(6 * nb) |->
                    BlockDigits((BlockOf(d, nb, (i + 5) \div 6) * m
                                    + carry[(i + 5) \div 6 + 1]) % 1000000)
                        [((i - 1) % 6) + 1]])

NatMul(d, m) == NatMulAdd(d, m, 0)

NatAddSmall(d, k) == NatMulAdd(d, 1, k)

RECURSIVE NatShl(_, _)
\* d * 2^s
NatShl(d, s) ==
    CASE NatIsZero(d) -> d
      [] ~NatIsZero(d) /\ s <= 11 -> NatMul(d, 2^s)
      [] ~NatIsZero(d) /\ s > 11 -> NatShl(NatMul(d, 2^11), s - 11)

RECURSIVE NatMulPow5(_, _)
\* d * 5^n
NatMulPow5(d, n) ==
    CASE NatIsZero(d) -> d
      [] ~NatIsZero(d) /\ n <= 4 -> NatMul(d, 5^n)
      [] ~NatIsZero(d) /\ n > 4 -> NatMulPow5(NatMul(d, 5^4), n - 4)

\* the powers of two 2^0 .. 2^80, Pow2[k + 1] = 2^k
Pow2 == <<
    <<1>>,
    <<2>>,
    <<4>>,
    <<8>>,
    <<1,6>>,
    <<3,2>>,
    <<6,4>>,
    <<1,2,8>>,
    <<2,5,6>>,
    <<5,1,2>>,
    <<1,0,2,4>>,
    <<2,0,4,8>>,
    <<4,0,9,6>>,
    <<8,1,9,2>>,
    <<1,6,3,8,4>>,
    <<3,2,7,6,8>>,
    <<6,5,5,3,6>>,
    <<1,3,1,0,7,2>>,
    <<2,6,2,1,4,4>>,
    <<5,2,4,2,8,8>>,
    <<1,0,4,8,5,7,6>>,
    <<2,0,9,7,1,5,2>>,
    <<4,1,9,4,3,0,4>>,
    <<8,3,8,8,6,0,8>>,
    <<1,6,7,7,7,2,1,6>>,
    <<3,3,5,5,4,4,3,2>>,
    <<6,7,1,0,8,8,6,4>>,
    <<1,3,4,2,1,7,7,2,8>>,
    <<2,6,8,4,3,5,4,5,6>>,
    <<5,3,6,8,7,0,9,1,2>>,
    <<1,0,7,3,7,4,1,8,2,4>>,
    <<2,1,4,7,4,8,3,6,4,8>>,
    <<4,2,9,4,9,6,7,2,9,6>>,
    <<8,5,8,9,9,3,4,5,9,2>>,
    <<1,7,1,7,9,8,6,9,1,8,4>>,
    <<3,4,3,5,9,7,3,8,3,6,8>>,
    <<6,8,7,1,9,4,7,6,7,3,6>>,
    <<1,3,7,4,3,8,9,5,3,4,7,2>>,
    <<2,7,4,8,7,7,9,0,6,9,4,4>>,
    <<5,4,9,7,5,5,8,1,3,8,8,8>>,
    <<1,0,9,9,5,1,1,6,2,7,7,7,6>>,
    <<2,1,9,9,0,2,3,2,5,5,5,5,2>>,
    <<4,3,9,8,0,4,6,5,1,1,1,0,4>>,
    <<8,7,9,6,0,9,3,0,2,2,2,0,8>>,
    <<1,7,5,9,2,1,8,6,0,4,4,4,1,6>>,
    <<3,5,1,8,4,3,7,2,0,8,8,8,3,2>>,
    <<7,0,3,6,8,7,4,4,1,7,7,6,6,4>>,
    <<1,4,0,7,3,7,4,8,8,3,5,5,3,2,8>>,
    <<2,8,1,4,7,4,9,7,6,7,1,0,6,5,6>>,
    <<5,6,2,9,4,9,9,5,3,4,2,1,3,1,2>>,
    <<1,1,2,5,8,9,9,9,0,6,8,4,2,6,2,4>>,
    <<2,2,5,1,7,9,9,8,1,3,6,8,5,2,4,8>>,
    <<4,5,0,3,5,9,9,6,2,7,3,7,0,4,9,6>>,
    <<9,0,0,7,1,9,9,2,5,4,7,4,0,9,9,2>>,
    <<1,8,0,1,4,3,9,8,5,0,9,4,8,1,9,8,4>>,
    <<3,6,0,2,8,7,9,7,0,1,8,9,6,3,9,6,8>>,
    <<7,2,0,5,7,5,9,4,0,3,7,9,2,7,9,3,6>>,
    <<1,4,4,1,1,5,1,8,8,0,7,5,8,5,5,8,7,2>>,
    <<2,8,8,2,3,0,3,7,6,1,5,1,7,1,1,7,4,4>>,
    <<5,7,6,4,6,0,7,5,2,3,0,3,4,2,3,4,8,8>>,
    <<1,1,5,2,9,2,1,5,0,4,6,0,6,8,4,6,9,7,6>>,
    <<2,3,0,5,8,4,3,0,0,9,2,1,3,6,9,3,9,5,2>>,
    <<4,6,1,1,6,8,6,0,1,8,4,2,7,3,8,7,9,0,4>>,
    <<9,2,2,3,3,7,2,0,3,6,8,5,4,7,7,5,8,0,8>>,
    <<1,8,4,4,6,7,4,4,0,7,3,7,0,9,5,5,1,6,1,6>>,
    <<3,6,8,9,3,4,8,8,1,4,7,4,1,9,1,0,3,2,3,2>>,
    <<7,3,7,8,6,9,7,6,2,9,4,8,3,8,2,0,6,4,6,4>>,
    <<1,4,7,5,7,3,9,5,2,5,8,9,6,7,6,4,1,2,9,2,8>>,
    <<2,9,5,1,4,7,9,0,5,1,7,9,3,5,2,8,2,5,8,5,6>>,
    <<5,9,0,2,9,5,8,1,0,3,5,8,7,0,5,6,5,1,7,1,2>>,
    <<1,1,8,0,5,9,1,6,2,0,7,1,7,4,1,1,3,0,3,4,2,4>>,
    <<2,3,6,1,1,8,3,2,4,1,4,3,4,8,2,2,6,0,6,8,4,8>>,
    <<4,7,2,2,3,6,6,4,8,2,8,6,9,6,4,5,2,1,3,6,9,6>>,
    <<9,4,4,4,7,3,2,9,6,5,7,3,9,2,9,0,4,2,7,3,9,2>>,
    <<1,8,8,8,9,4,6,5,9,3,1,4,7,8,5,8,0,8,5,4,7,8,4>>,
    <<3,7,7,7,8,9,3,1,8,6,2,9,5,7,1,6,1,7,0,9,5,6,8>>,
    <<7,5,5,5,7,8,6,3,7,2,5,9,1,4,3,2,3,4,1,9,1,3,6>>,
    <<1,5,1,1,1,5,7,2,7,4,5,1,8,2,8,6,4,6,8,3,8,2,7,2>>,
    <<3,0,2,2,3,1,4,5,4,9,0,3,6,5,7,2,9,3,6,7,6,5,4,4>>,
    <<6,0,4,4,6,2,9,0,9,8,0,7,3,1,4,5,8,7,3,5,3,0,8,8>>,
    <<1,2,0,8,9,2,5,8,1,9,6,1,4,6,2,9,1,7,4,7,0,6,1,7,6>> >>

\* the least k with n < table[k + 1], table the ascending powers of two
BitLenIn(n, table) ==
    CHOOSE k \in 0..(Len(table) - 1) :
        NatLess(n, table[k + 1]) /\ (k = 0 \/ NatLeq(table[k], n))

\* the number of binary digits of n: the least k with n < 2^k
BitLen(n) == BitLenIn(n, Pow2)
----------------------------------------------------------------------------
(* 64-bit floats (f64).  A finite float that is not zero is m * 2^e2 with  *)
(* 2^52 <= m < 2^53, which names each float exactly once; m is kept as      *)
(* decimal digits.  The floats below 2^-1022 (subnormal) are not modelled.  *)

F64Zero(neg) == [inf |-> FALSE, neg |-> neg, m |-> <<0>>, e2 |-> 0]

F64Inf(neg) == [inf |-> TRUE, neg |-> neg, m |-> <<0>>, e2 |-> 0]

\* where the fraction 0.f lies relative to one half
FracClass(f) ==
    IF NatIsZero(f) THEN "zero"
    ELSE IF f[1] < 5 THEN "below"
    ELSE IF f[1] > 5 THEN "above"
    ELSE IF NatIsZero(Tail(f)) THEN "half"
    ELSE "above"

\* the digits of d before and after a decimal point m places from the right
IntPartOf(d, m) == IF Len(d) <= m THEN <<0>> ELSE SubSeq(d, 1, Len(d) - m)

FracPartOf(d, m) ==
    IF Len(d) >= m THEN SubSeq(d, Len(d) - m + 1, Len(d))
    ELSE Zeros(m - Len(d)) \o d

\* q + 0.frac rounded to the nearest integer, ties to even
\* (IEEE 754 round-to-nearest-even, the rounding of Rust's f64 parsing)
RoundHalfEven(q, frac) ==
    IF frac = "above" \/ (frac = "half" /\ q[Len(q)] % 2 = 1)
    THEN NatAddSmall(q, 1)
    ELSE q

\* the float q * 2^e, q of 53 bits or, after rounding up, 2^53
F64Of(neg, q, e) ==
    IF q = Pow2[54] THEN [inf |-> FALSE, neg |-> neg, m |-> Pow2[53], e2 |-> e + 1]
    ELSE [inf |-> FALSE, neg |-> neg, m |-> q, e2 |-> e]

\* d / 10^point divided by 2^e, as digits and the place of the point: a
\* division by 2 is a multiplication by 5 and one more decimal place
Scaled(d, point, e) ==
    IF e >= 0 THEN [d |-> NatMulPow5(d, e), point |-> point + e]
    ELSE [d |-> NatShl(d, 0 - e), point |-> point]

\* the float nearest to sc.d / 10^sc.point * 2^e, whose integer part has
\* 53 bits
F64Rounded(neg, sc, e) ==
    F64Of(neg, RoundHalfEven(IntPartOf(sc.d, sc.point),
                             FracClass(FracPartOf(sc.d, sc.point))), e)

\* the s for which d / 10^point * 2^s has an integer part of 53 bits, for a
\* value below 1 with the decimal exponent e10 (10^(e10 - 1) <= value < 10^e10)
ShiftOf(d, point, e10) ==
    CHOOSE s \in (52 + ((0 - e10) * 3321) \div 1000)..(55 + ((1 - e10) * 3322) \div 1000) :
        BitLen(IntPartOf(NatShl(d, s), point)) = 53

\* the exponent e for which d / 10^point / 2^e has an integer part of 53 bits,
\* bl the bits of the integer part of d / 10^point
ExponentOf(d, point, bl) ==
    IF bl >= 1 THEN bl - 53 ELSE 0 - ShiftOf(d, point, Len(d) - point)

\* the float nearest to d / 10^point, given the exponent of the float
F64NearestAt(neg, d, point, e) == F64Rounded(neg, Scaled(d, point, e), e)

\* the float nearest to d / 10^point (d without leading zeros, point >= 0)
F64Nearest(neg, d, point) ==
    F64NearestAt(neg, d, point, ExponentOf(d, point, BitLen(IntPartOf(d, point))))

\* the largest number of decimal digits of a whole number the float model rounds
MaxWholeDigits == 24

\* the least decimal exponent of a fraction the float model rounds
MinDecimalExp == 20

\* the float nearest to dn * 10^k (dn without leading zeros, e10 its decimal
\* exponent): overflow to infinity, underflow to zero
F64FromDigits(neg, dn, k, e10) ==
    CASE NatIsZero(dn) -> F64Zero(neg)
      [] ~NatIsZero(dn) /\ e10 >= 310 -> F64Inf(neg)
      [] ~NatIsZero(dn) /\ e10 <= 0 - 325 -> F64Zero(neg)
      [] ~NatIsZero(dn) /\ e10 <= MaxWholeDigits /\ e10 >= 0 - MinDecimalExp ->
            F64Nearest(neg, IF k >= 0 THEN dn \o Zeros(k) ELSE dn,
                       IF k >= 0 THEN 0 ELSE 0 - k)

\* the float nearest to d * 10^k
F64FromDecimal(neg, d, k) ==
    F64FromDigits(neg, StripZeros(d), k, Len(StripZeros(d)) + k)

\* the float nearest to the natural n (Rust's n as f64)
F64FromNat(n) == F64FromDecimal(FALSE, n, 0)

\* the value of a finite float as digits and the place of the point
F64Digits(f) ==
    IF f.e2 >= 0 THEN [d |-> NatShl(f.m, f.e2), point |-> 0]
    ELSE [d |-> NatMulPow5(f.m, 0 - f.e2), point |-> 0 - f.e2]

\* float.fract() == 0.0 (the fractional part of an infinity is NaN)
F64IsWhole(f) ==
    /\ ~f.inf
    /\ \/ f.e2 >= 0
       \/ NatIsZero(f.m)
       \/ f.e2 >= 0 - 52 /\ NatIsZero(FracPartOf(F64Digits(f).d, F64Digits(f).point))

\* the magnitude of a whole float, as a natural
F64Magnitude(f) == IntPartOf(F64Digits(f).d, F64Digits(f).point)

\* a <= b for magnitudes, both signs given
SignedLeq(aneg, amag, bneg, bmag) ==
    IF NatIsZero(amag) /\ NatIsZero(bmag) THEN TRUE
    ELSE IF aneg /\ ~NatIsZero(amag) THEN
        IF bneg /\ ~NatIsZero(bmag) THEN NatLeq(bmag, amag) ELSE TRUE
    ELSE IF bneg \/ NatIsZero(bmag) THEN FALSE
    ELSE NatLeq(amag, bmag)

\* a <= b, for whole floats
F64Leq(a, b) == SignedLeq(a.neg, F64Magnitude(a), b.neg, F64Magnitude(b))
----------------------------------------------------------------------------
(* Number (parser/number.rs) *)

IsDigit(c) == c >= CodePoint["0"] /\ c <= CodePoint["9"]

DigitsOf(cs) == [i \in 1..Len(cs) |-> cs[i] - CodePoint["0"]]

CharsOf(d) == [i \in 1..Len(d) |-> d[i] + CodePoint["0"]]

AllDigits(cs) == Len(cs) >= 1 /\ \A i \in 1..Len(cs) : IsDigit(cs[i])

U64_MAX == <<1,8,4,4,6,7,4,4,0,7,3,7,0,9,5,5,1,6,1,5>>

I64_MAX == <<9,2,2,3,3,7,2,0,3,6,8,5,4,7,7,5,8,0,7>>

\* the magnitude of i64::MIN
I64_MIN == <<9,2,2,3,3,7,2,0,3,6,8,5,4,7,7,5,8,0,8>>

NoneValue == [some |-> FALSE]

SomeValue(v) == [some |-> TRUE, v |-> v]

\* an integer: its sign and its magnitude (zero is never negative)
IntValue(neg, mag) == [neg |-> neg /\ ~NatIsZero(mag), mag |-> mag]

\* an optional '+', then digits; no sign alone, no '-', no value above
\* u64::MAX
u64_from_digits(body) ==
    IF AllDigits(body) /\ NatLeq(StripZeros(DigitsOf(body)), U64_MAX)
    THEN SomeValue(IntValue(FALSE, StripZeros(DigitsOf(body))))
    ELSE NoneValue

\* str::parse::<u64>()
u64_from_str(cs) ==
    u64_from_digits(IF Len(cs) >= 1 /\ cs[1] = CodePoint["+"] THEN Tail(cs) ELSE cs)

i64_from_digits(neg, body) ==
    IF AllDigits(body)
        /\ NatLeq(StripZeros(DigitsOf(body)), IF neg THEN I64_MIN ELSE I64_MAX)
    THEN SomeValue(IntValue(neg, StripZeros(DigitsOf(body))))
    ELSE NoneValue

HasSign(cs, i) == i <= Len(cs) /\ cs[i] \in {CodePoint["+"], CodePoint["-"]}

HasMinus(cs, i) == i <= Len(cs) /\ cs[i] = CodePoint["-"]

\* str::parse::<i64>(): an optional '+' or '-', then digits, within the range
i64_from_str(cs) ==
    i64_from_digits(HasMinus(cs, 1), IF HasSign(cs, 1) THEN Tail(cs) ELSE cs)

\* the first index from i on that holds no digit
DigitRunEnd(cs, i) ==
    CHOOSE j \in i..(Len(cs) + 1) :
        /\ \A k \in i..(j - 1) : IsDigit(cs[k])
        /\ (j = Len(cs) + 1 \/ ~IsDigit(cs[j]))

\* the largest exponent magnitude kept exactly; a larger one overflows or
\* underflows every float all the same
ExpCap == 100000

RECURSIVE ExpValue(_, _)
ExpValue(ed, acc) ==
    IF Len(ed) = 0 THEN acc
    ELSE ExpValue(Tail(ed),
            IF acc * 10 + ed[1] > ExpCap THEN ExpCap ELSE acc * 10 + ed[1])

\* the float of the digits with fracLen of them after the point and the
\* exponent part expDigits (absent: hasExp false, and the text ends at rest)
f64_from_parts(neg, digits, fracLen, hasExp, expNeg, expDigits, atEnd) ==
    IF Len(digits) >= 1 /\ (IF hasExp THEN AllDigits(expDigits) ELSE atEnd)
    THEN SomeValue(F64FromDecimal(neg, DigitsOf(digits),
            (IF hasExp
             THEN (IF expNeg THEN 0 - ExpValue(DigitsOf(expDigits), 0)
                   ELSE ExpValue(DigitsOf(expDigits), 0))
             ELSE 0) - fracLen))
    ELSE NoneValue

\* the text from the end of the fraction on: nothing, or an exponent
f64_from_frac(cs, neg, digits, fracLen, fracEnd) ==
    f64_from_parts(neg, digits, fracLen,
        fracEnd <= Len(cs) /\ cs[fracEnd] \in {CodePoint["e"], CodePoint["E"]},
        HasMinus(cs, fracEnd + 1),
        SubSeq(cs, fracEnd + (IF HasSign(cs, fracEnd + 1) THEN 2 ELSE 1), Len(cs)),
        fracEnd = Len(cs) + 1)

\* the text from the end of the integer digits on: an optional fraction
f64_from_int(cs, neg, p, intEnd, fracEnd) ==
    f64_from_frac(cs, neg,
        SubSeq(cs, p, intEnd - 1) \o SubSeq(cs, intEnd + 1, fracEnd - 1),
        IF fracEnd > intEnd THEN fracEnd - (intEnd + 1) ELSE 0, fracEnd)

f64_from_sign(cs, neg, p, intEnd) ==
    f64_from_int(cs, neg, p, intEnd,
        IF intEnd <= Len(cs) /\ cs[intEnd] = CodePoint["."]
        THEN DigitRunEnd(cs, intEnd + 1) ELSE intEnd)

\* str::parse::<f64>() on a run of number characters: [sign] digits ['.' digits]
\* [('e'|'E') [sign] digits], with a digit before or after the point, correctly
\* rounded
f64_from_str(cs) ==
    f64_from_sign(cs, HasMinus(cs, 1), IF HasSign(cs, 1) THEN 2 ELSE 1,
                  DigitRunEnd(cs, IF HasSign(cs, 1) THEN 2 ELSE 1))

\* u64::MAX as f64, i64::MIN as f64, i64::MAX as f64
U64_MAX_as_f64 == F64FromNat(U64_MAX)

I64_MIN_as_f64 == [F64FromNat(I64_MIN) EXCEPT !.neg = TRUE]

I64_MAX_as_f64 == F64FromNat(I64_MAX)

\* a magnitude saturated at a bound
Saturated(neg, mag, bound) ==
    IF NatLeq(mag, bound) THEN IntValue(neg, mag) ELSE IntValue(neg, bound)

\* float as u64, of a whole float: the cast saturates at the bounds of u64
f64_as_u64(f) ==
    IF f.neg THEN IntValue(FALSE, <<0>>)
    ELSE Saturated(FALSE, F64Magnitude(f), U64_MAX)

\* float as i64, of a whole float: the cast saturates at the bounds of i64
f64_as_i64(f) ==
    Saturated(f.neg, F64Magnitude(f), IF f.neg THEN I64_MIN ELSE I64_MAX)

\* d without its trailing zeros (d not zero)
StripTrailingZeros(d) ==
    SubSeq(d, 1, CHOOSE i \in 1..Len(d) : d[i] # 0 /\ \A j \in (i + 1)..Len(d) : d[j] = 0)

\* the digits `exact` scaled by 10^(-shift), without trailing zeros
Trimmed(exact, shift) ==
    [d |-> StripTrailingZeros(exact),
     e |-> (Len(exact) - Len(StripTrailingZeros(exact))) - shift]

\* the exact decimal expansion of a finite float that is not zero:
\* the value is d * 10^e, d without leading or trailing zeros
F64Decimal(f) ==
    IF f.e2 >= 0 THEN Trimmed(NatShl(f.m, f.e2), 0)
    ELSE Trimmed(NatMulPow5(f.m, 0 - f.e2), 0 - f.e2)

\* whether the digits c * 10^e parse back to the float f
RoundTrips(f, c, e) == F64FromDecimal(f.neg, c, e) = f

\* the first n digits of the expansion x, and the next n-digit number above
Candidates(x, n) == {SubSeq(x.d, 1, n), NatAddSmall(SubSeq(x.d, 1, n), 1)}

\* the n-digit candidates that parse back to the float f
Fitting(f, x, n) ==
    {c \in Candidates(x, n) : RoundTrips(f, c, x.e + (Len(x.d) - n))}

\* the least number of digits that parse back to f: with n digits that do,
\* n + 1 digits do as well
ShortestLen(f, x) ==
    CHOOSE n \in 1..Len(x.d) :
        /\ n = Len(x.d) \/ Fitting(f, x, n) # {}
        /\ n = 1 \/ Fitting(f, x, n - 1) = {}

\* the choice among the n-digit candidates ok that parse back: the nearer to
\* the expansion x, the upper one when x lies half way
F64Pick(x, n, ok) ==
    IF SubSeq(x.d, 1, n) \in ok
        /\ (Cardinality(ok) = 1
            \/ FracClass(SubSeq(x.d, n + 1, Len(x.d))) \in {"zero", "below"})
    THEN Trimmed(SubSeq(x.d, 1, n), 0 - (x.e + (Len(x.d) - n)))
    ELSE Trimmed(NatAddSmall(SubSeq(x.d, 1, n), 1), 0 - (x.e + (Len(x.d) - n)))

\* the shortest digits of n places that parse back to the float f
F64ShortestOf(f, x, n) ==
    IF n = Len(x.d) THEN x ELSE F64Pick(x, n, Fitting(f, x, n))

\* the shortest digits that parse back to the float f with the exact
\* expansion x
F64Shortest(f, x) == F64ShortestOf(f, x, ShortestLen(f, x))

\* the digits d * 10^e written without an exponent
DecimalText(x) ==
    IF x.e >= 0 THEN CharsOf(x.d \o Zeros(x.e))
    ELSE IF 0 - x.e < Len(x.d)
    THEN CharsOf(SubSeq(x.d, 1, Len(x.d) + x.e)) \o <<CodePoint["."]>>
            \o CharsOf(SubSeq(x.d, Len(x.d) + x.e + 1, Len(x.d)))
    ELSE <<CodePoint["0"], CodePoint["."]>>
            \o CharsOf(Zeros((0 - x.e) - Len(x.d)) \o x.d)

\* f64::to_string: the shortest decimal that parses back to the float, without
\* an exponent; "inf" for an infinity
f64_to_string(f) ==
    (IF f.neg THEN <<CodePoint["-"]>> ELSE <<>>)
    \o (IF f.inf THEN Str(<<"i", "n", "f">>)
        ELSE IF NatIsZero(f.m) THEN <<CodePoint["0"]>>
        ELSE DecimalText(F64Shortest(f, F64Decimal(f))))

\* i64::to_string and u64::to_string
int_to_string(i) == (IF i.neg THEN <<CodePoint["-"]>> ELSE <<>>) \o CharsOf(i.mag)

Integer(i) == [variant |-> "Integer", int |-> i]

UnsingedInteger(i) == [variant |-> "UnsingedInteger", int |-> i]

Float(f) == [variant |-> "Float", float |-> f]

\* lo <= float <= hi, for whole floats
F64Within(float, lo, hi) == F64Leq(lo, float) /\ F64Leq(float, hi)

\* the variant of a float the text parsed as
Number_from_f64(float) ==
    IF F64IsWhole(float) /\ F64Within(float, F64Zero(FALSE), U64_MAX_as_f64)
    THEN UnsingedInteger(f64_as_u64(float))
    ELSE IF F64IsWhole(float) /\ F64Within(float, I64_MIN_as_f64, I64_MAX_as_f64)
    THEN Integer(f64_as_i64(float))
    ELSE Float(float)

\* the first of the three parses that succeeds
Number_first(asU64, asI64, asF64) ==
    IF asU64.some THEN SomeValue(UnsingedInteger(asU64.v))
    ELSE IF asI64.some THEN SomeValue(Integer(asI64.v))
    ELSE IF asF64.some THEN SomeValue(Number_from_f64(asF64.v))
    ELSE NoneValue

\* Number::parse
Number_parse(sequence) ==
    Number_first(u64_from_str(sequence), i64_from_str(sequence),
                 f64_from_str(sequence))

\* Number::to_string
Number_to_string(self) ==
    IF self.variant = "Float" THEN f64_to_string(self.float) ELSE int_to_string(self.int)
----------------------------------------------------------------------------
(* 32-bit unsigned arithmetic, a u32 kept as two 16-bit halves *)

U32(n) == [hi |-> n \div 65536, lo |-> n % 65536]

\* a - b in u32: the wrapped difference, and whether the subtraction overflowed
U32Sub(a, b) ==
    [v |-> [hi |-> (a.hi - b.hi - (IF a.lo < b.lo THEN 1 ELSE 0)) % 65536,
            lo |-> (a.lo - b.lo) % 65536],
     overflow |-> a.hi - b.hi - (IF a.lo < b.lo THEN 1 ELSE 0) < 0]

\* a + b in u32: the wrapped sum, and whether the addition overflowed
U32Add(a, b) ==
    [v |-> [hi |-> (a.hi + b.hi + ((a.lo + b.lo) \div 65536)) % 65536,
            lo |-> (a.lo + b.lo) % 65536],
     overflow |-> a.hi + b.hi + ((a.lo + b.lo) \div 65536) >= 65536]

\* a << 10 in u32 (the bits shifted out are dropped)
U32Shl10(a) ==
    [hi |-> (a.hi * 1024 + a.lo \div 64) % 65536, lo |-> (a.lo * 1024) % 65536]

\* char::from_u32: no character for a surrogate or a value above 0x10FFFF
char_from_u32(u) ==
    IF u.hi = 0 /\ u.lo >= 55296 /\ u.lo <= 57343 THEN NoneValue
    ELSE IF u.hi > 16 THEN NoneValue
    ELSE SomeValue(u.hi * 65536 + u.lo)

----------------------------------------------------------------------------
(* Tokenizer (parser/tokenizer.rs) *)

BeginArray == [type |-> "BeginArray"]
EndArray == [type |-> "EndArray"]
BeginObject == [type |-> "BeginObject"]
EndObject == [type |-> "EndObject"]
NameSeparator == [type |-> "NameSeparator"]
ValueSeparator == [type |-> "ValueSeparator"]
False == [type |-> "False"]
True == [type |-> "True"]
Null == [type |-> "Null"]
NumberToken(n) == [type |-> "Number", number |-> n]
StringToken(str) == [type |-> "String", string |-> str]
Invalid == [type |-> "Invalid"]

Location(line, column, length) == [line |-> line, column |-> column, length |-> length]

Location_from_tokenizer(tz, column_start) ==
    Location(tz.line, column_start, tz.column - column_start)

Token(token_type, value, location) ==
    [token_type |-> token_type, value |-> value, location |-> location]

\* the outcome of a call that panicked
Panic == [kind |-> "Panic"]

\* self.characters.get(index), EOF where there is no character
CharAt(tz, index) ==
    IF index < Len(tz.characters) THEN tz.characters[index + 1] ELSE EOF

\* Tokenizer::new: indexing the first character of an empty input panics
Tokenizer_new(chars) ==
    IF Len(chars) = 0 THEN Panic
    ELSE [kind |-> "Ok",
          tz |-> [character |-> chars[1], characters |-> chars,
                  position |-> 0, line |-> 1, column |-> 1]]

read_char(tz) ==
    [tz EXCEPT !.position = tz.position + 1,
               !.column = tz.column + 1,
               !.character = CharAt(tz, tz.position + 1)]

\* read_chars: `count` calls of read_char, which leave the position and the
\* column advanced by `count` and the character at the new position
read_chars(tz, count) ==
    IF count = 0 THEN tz
    ELSE [tz EXCEPT !.position = tz.position + count,
                    !.column = tz.column + count,
                    !.character = CharAt(tz, tz.position + count)]

peak_char(tz, offset) == CharAt(tz, tz.position + offset)

advance_line(tz) == [tz EXCEPT !.line = tz.line + 1, !.column = 0]

RECURSIVE skip_whitespace(_)
skip_whitespace(tz) ==
    IF tz.character \in {CodePoint[" "], TAB} THEN skip_whitespace(read_char(tz))
    ELSE IF tz.character \in {LF, CR} THEN skip_whitespace(read_char(advance_line(tz)))
    ELSE tz

is_letter(character) ==
    \/ character >= CodePoint["a"] /\ character <= CodePoint["z"]
    \/ character >= CodePoint["A"] /\ character <= CodePoint["Z"]

is_number_character(character) ==
    \/ character >= CodePoint["0"] /\ character <= CodePoint["9"]
    \/ character = CodePoint["-"]
    \/ character = CodePoint["+"]
    \/ character = CodePoint["."]
    \/ character = CodePoint["e"]
    \/ character = CodePoint["E"]

is_hex_character(character) ==
    \/ character >= CodePoint["0"] /\ character <= CodePoint["9"]
    \/ character >= CodePoint["a"] /\ character <= CodePoint["f"]
    \/ character >= CodePoint["A"] /\ character <= CodePoint["F"]

\* the number of characters from the current one up to the first that is
\* not valid
ValidRun(tz, is_valid(_)) ==
    CHOOSE n \in 0..Len(tz.characters) :
        /\ \A k \in 0..(n - 1) : is_valid(peak_char(tz, k))
        /\ ~is_valid(peak_char(tz, n))

read_run(tz, count) ==
    [tz |-> read_chars(tz, count),
     column_start |-> tz.column,
     sequence |-> [k \in 1..count |-> peak_char(tz, k - 1)]]

\* read_sequence: the characters from the current one up to the first that is
\* not valid are pushed and read
read_sequence(tz, is_valid(_)) == read_run(tz, ValidRun(tz, is_valid))

\* the token of a sequence that was read
sequence_token(read, token_type) ==
    [kind |-> "Some", tz |-> read.tz,
     token |-> Token(token_type, read.sequence,
                     Location_from_tokenizer(read.tz, read.column_start))]

literal_type(literal) ==
    CASE literal = Str(<<"t", "r", "u", "e">>) -> True
      [] literal = Str(<<"f", "a", "l", "s", "e">>) -> False
      [] literal = Str(<<"n", "u", "l", "l">>) -> Null
      [] OTHER -> Invalid

literal_token(read) == sequence_token(read, literal_type(read.sequence))

read_literal(tz) == literal_token(read_sequence(tz, is_letter))

number_type(parsed_value) ==
    IF parsed_value.some THEN NumberToken(parsed_value.v) ELSE Invalid

number_token(read) == sequence_token(read, number_type(Number_parse(read.sequence)))

read_number(tz) == number_token(read_sequence(tz, is_number_character))

RECURSIVE read_hex_loop(_, _, _)
RECURSIVE read_hex_step(_, _, _)
\* the body of the loop of read_hex_sequence, `remaining` iterations to go
read_hex_loop(tz, sequence, remaining) ==
    IF remaining = 0 THEN [some |-> TRUE, v |-> sequence, tz |-> tz]
    ELSE read_hex_step(read_char(tz), sequence, remaining)

\* one iteration, after its read_char
read_hex_step(tz, sequence, remaining) ==
    IF ~is_hex_character(tz.character) THEN [some |-> FALSE, tz |-> tz]
    ELSE read_hex_loop(tz, Append(sequence, tz.character), remaining - 1)

read_hex_sequence(tz) == read_hex_loop(tz, <<>>, 4)

HexDigit(c) ==
    IF c >= CodePoint["0"] /\ c <= CodePoint["9"] THEN c - CodePoint["0"]
    ELSE IF c >= CodePoint["a"] /\ c <= CodePoint["f"] THEN c - CodePoint["a"] + 10
    ELSE c - CodePoint["A"] + 10

\* u32::from_str_radix(sequence, 16) of four hexadecimal digits
u32_from_str_radix_16(hex) ==
    U32(((HexDigit(hex[1]) * 16 + HexDigit(hex[2])) * 16 + HexDigit(hex[3])) * 16
            + HexDigit(hex[4]))

\* the build checks integer overflow (debug) or wraps (release)
OverflowChecks == build = "debug"

\* a + b in u32, overflow kept from the operands
U32Sum(a, b) ==
    [v |-> U32Add(a.v, b.v).v,
     overflow |-> a.overflow \/ b.overflow \/ U32Add(a.v, b.v).overflow]

\* high << 10 in u32, overflow kept from the operand
U32Shifted(high) == [v |-> U32Shl10(high.v), overflow |-> high.overflow]

\* the pair combined without the offset 0x10000
surrogate_code_point_no_offset(high_surrogate, low_surrogate) ==
    U32Sum(U32Shifted(U32Sub(high_surrogate, U32(55296))),
           U32Sub(low_surrogate, U32(56320)))

\* 0x10000 + ((high_surrogate - 0xD800) << 10) + (low_surrogate - 0xDC00) in u32
surrogate_code_point(high_surrogate, low_surrogate) ==
    U32Sum(U32Sum([v |-> U32(65536), overflow |-> FALSE],
                  U32Shifted(U32Sub(high_surrogate, U32(55296)))),
           U32Sub(low_surrogate, U32(56320)))

\* char::from_u32(code_point) as the result of the escape
escape_char(tz, character) ==
    IF character.some THEN [kind |-> "Some", v |-> character.v, tz |-> tz]
    ELSE [kind |-> "None", tz |-> tz]

\* the code point of a pair; the arithmetic panics on overflow where checked
unicode_combined(tz, combined) ==
    IF combined.overflow /\ OverflowChecks THEN Panic
    ELSE escape_char(tz, char_from_u32(combined.v))

\* the escape of a pair, after the second sequence was read
unicode_second(high_surrogate, second) ==
    IF ~second.some THEN [kind |-> "None", tz |-> second.tz]
    ELSE unicode_combined(second.tz,
            surrogate_code_point(high_surrogate, u32_from_str_radix_16(second.v)))

\* the escape whose first sequence has the value code_point
unicode_code_point(tz, code_point) ==
    IF /\ code_point.hi = 0
       /\ code_point.lo >= 55296
       /\ code_point.lo <= 56319
       /\ peak_char(tz, 1) = CodePoint["\\"]
       /\ peak_char(tz, 2) = CodePoint["u"]
    THEN unicode_second(code_point, read_hex_sequence(read_chars(tz, 2)))
    ELSE escape_char(tz, char_from_u32(code_point))

\* the escape, after the first sequence was read
unicode_first(first) ==
    IF ~first.some THEN [kind |-> "None", tz |-> first.tz]
    ELSE unicode_code_point(first.tz, u32_from_str_radix_16(first.v))

read_unicode_escape_sequence(tz) == unicode_first(read_hex_sequence(tz))

\* the character an escape letter stands for
escape_letter(c) ==
    CASE c = CodePoint["\""] -> SomeValue(CodePoint["\""])
      [] c = CodePoint["\\"] -> SomeValue(CodePoint["\\"])
      [] c = CodePoint["/"] -> SomeValue(CodePoint["/"])
      [] c = CodePoint["b"] -> SomeValue(BACKSPACE)
      [] c = CodePoint["f"] -> SomeValue(FORMFEED)
      [] c = CodePoint["n"] -> SomeValue(LF)
      [] c = CodePoint["r"] -> SomeValue(CR)
      [] c = CodePoint["t"] -> SomeValue(TAB)
      [] OTHER -> NoneValue

\* the escape, after its read_char
escape_at(tz) ==
    IF tz.character = CodePoint["u"] THEN read_unicode_escape_sequence(tz)
    ELSE escape_char(tz, escape_letter(tz.character))

read_escape_sequence(tz) == escape_at(read_char(tz))

\* the match on self.character in read_string
string_character(tz) ==
    IF tz.character = CodePoint["\\"] THEN read_escape_sequence(tz)
    ELSE IF tz.character = EOF THEN [kind |-> "None", tz |-> tz]
    ELSE [kind |-> "Some", v |-> tz.character, tz |-> tz]

\* the end of read_string: tz after the closing quote was read
string_token(tz, sequence, position_start, column_start) ==
    [kind |-> "Some", tz |-> tz,
     token |-> Token(StringToken(SubSeq(sequence, 2, Len(sequence) - 1)),
                     SubSeq(tz.characters, position_start + 1, tz.position),
                     Location_from_tokenizer(tz, column_start))]

RECURSIVE read_string_loop(_, _, _, _)
RECURSIVE read_string_step(_, _, _, _, _)
\* the loop of read_string and what follows it
read_string_loop(tz, sequence, position_start, column_start) ==
    read_string_step(Len(sequence) >= 1 /\ tz.character = CodePoint["\""],
                     string_character(tz), sequence, position_start, column_start)

\* one iteration, after the match on self.character
read_string_step(should_break, maybe_character, sequence, position_start,
                 column_start) ==
    IF maybe_character.kind = "Panic" THEN Panic
    ELSE IF maybe_character.kind = "None" THEN
        [kind |-> "Some", tz |-> maybe_character.tz,
         token |-> Token(Invalid, sequence,
                         Location_from_tokenizer(maybe_character.tz, column_start))]
    ELSE IF ~should_break THEN
        read_string_loop(read_char(maybe_character.tz),
                         Append(sequence, maybe_character.v),
                         position_start, column_start)
    ELSE string_token(read_char(maybe_character.tz),
                      Append(sequence, maybe_character.v),
                      position_start, column_start)

read_string(tz) == read_string_loop(tz, <<>>, tz.position, tz.column)

read_plain_token(tz, token_type) ==
    [kind |-> "Some", tz |-> read_char(tz),
     token |-> Token(token_type, <<tz.character>>, Location(tz.line, tz.column, 1))]

\* the token type of a one-character token
plain_type(c) ==
    CASE c = CodePoint["["] -> BeginArray
      [] c = CodePoint["]"] -> EndArray
      [] c = CodePoint["{"] -> BeginObject
      [] c = CodePoint["}"] -> EndObject
      [] c = CodePoint[":"] -> NameSeparator
      [] c = CodePoint[","] -> ValueSeparator
      [] OTHER -> Invalid

\* a match that steps over the end of the input before it returns None
token_at_reads_on(tz) ==
    IF tz.character = EOF THEN [kind |-> "None", tz |-> read_char(tz)]
    ELSE IF tz.character = CodePoint["\""] THEN read_string(tz)
    ELSE IF plain_type(tz.character) # Invalid
    THEN read_plain_token(tz, plain_type(tz.character))
    ELSE IF is_letter(tz.character) THEN read_literal(tz)
    ELSE IF is_number_character(tz.character) THEN read_number(tz)
    ELSE read_plain_token(tz, Invalid)

\* the match of next_token, after skip_whitespace
token_at(tz) ==
    IF tz.character = EOF THEN [kind |-> "None", tz |-> tz]
    ELSE IF tz.character = CodePoint["\""] THEN read_string(tz)
    ELSE IF plain_type(tz.character) # Invalid
    THEN read_plain_token(tz, plain_type(tz.character))
    ELSE IF is_letter(tz.character) THEN read_literal(tz)
    ELSE IF is_number_character(tz.character) THEN read_number(tz)
    ELSE read_plain_token(tz, Invalid)

\* next_token: [kind |-> "None"] at the end of the input, the token otherwise
next_token(tz) == token_at(skip_whitespace(tz))
----------------------------------------------------------------------------
(* Value (parser/value.rs) and ParseError (parser/parse_error.rs) *)

ValueNull == [variant |-> "Null"]
ValueBool(b) == [variant |-> "Bool", bool |-> b]
ValueNumber(n) == [variant |-> "Number", number |-> n]
ValueString(str) == [variant |-> "String", string |-> str]
\* an object holds its entries [key, value] in the order of the IndexMap
ValueObject(properties) == [variant |-> "Object", properties |-> properties]
ValueArray(values) == [variant |-> "Array", values |-> values]

\* an insert that leaves the value of a key already present as it is
IndexMap_insert_keeps_old(map, key, value) ==
    IF \E i \in 1..Len(map) : map[i].key = key THEN map
    ELSE Append(map, [key |-> key, value |-> value])

\* IndexMap::insert: a key already present keeps its place and takes the new
\* value; a new key goes to the end
IndexMap_insert(map, key, value) ==
    IF \E i \in 1..Len(map) : map[i].key = key
    THEN [i \in 1..Len(map) |->
            IF map[i].key = key THEN [key |-> key, value |-> value] ELSE map[i]]
    ELSE Append(map, [key |-> key, value |-> value])

UnexpectedEndOfFile(location) ==
    [variant |-> "UnexpectedEndOfFile", location |-> location]

UnexpectedToken(tok, expected_tokens) ==
    [variant |-> "UnexpectedToken", token |-> tok, expected_tokens |-> expected_tokens]

InvalidToken(tok, expected_tokens) ==
    [variant |-> "InvalidToken", token |-> tok, expected_tokens |-> expected_tokens]

Err(error) == [kind |-> "Err", error |-> error]

(* Display for ParseError (parser/parse_error.rs) *)

\* the character '`'
BACKTICK == 96

\* the characters of an expected token, which parse names by a literal
expected_token_chars(name) ==
    CASE name = "null" -> Str(<<"n", "u", "l", "l">>)
      [] name = "true" -> Str(<<"t", "r", "u", "e">>)
      [] name = "false" -> Str(<<"f", "a", "l", "s", "e">>)
      [] name = "number" -> Str(<<"n", "u", "m", "b", "e", "r">>)
      [] name = "string" -> Str(<<"s", "t", "r", "i", "n", "g">>)
      [] name = "{" -> Str(<<"{">>)
      [] name = "[" -> Str(<<"[">>)
      [] name = "}" -> Str(<<"}">>)
      [] name = "]" -> Str(<<"]">>)
      [] name = "," -> Str(<<",">>)
      [] name = ":" -> Str(<<":">>)

\* usize as Display writes it
usize_to_string(n) == CharsOf(IntDigits(n))

RECURSIVE format_expected_fold(_, _, _)
\* the fold of format_expected from the element at index idx on, s the
\* string so far
format_expected_fold(expected_tokens, idx, s) ==
    IF idx = Len(expected_tokens) THEN s
    ELSE format_expected_fold(expected_tokens, idx + 1,
            s \o (IF idx + 1 = Len(expected_tokens) THEN Str(<<" ", "o", "r", " ">>)
                  ELSE IF idx > 0 THEN Str(<<",", " ">>)
                  ELSE <<>>)
              \o <<BACKTICK>> \o expected_token_chars(expected_tokens[idx + 1])
              \o <<BACKTICK>>)

format_expected(expected_tokens) ==
    Str(<<"E", "x", "p", "e", "c", "t", "e", "d", " ">>) \o format_expected_fold(expected_tokens, 0, <<>>)

format_location(location) ==
    Str(<<">", ">", " ", "P", "a", "r", "s", "i", "n", "g", " ", "E", "r", "r", "o", "r", " ", "o", "n", " ", "l", "i", "n", "e", " ">>) \o usize_to_string(location.line)
        \o Str(<<" ", "c", "o", "l", "u", "m", "n", " ">>) \o usize_to_string(location.column)

\* what `{}` writes for the error
ParseError_fmt(self) ==
    CASE self.variant = "UnexpectedEndOfFile" ->
            format_location(self.location) \o Str(<<":", " ", "U", "n", "e", "x", "p", "e", "c", "t", "e", "d", " ", "e", "n", "d", " ", "o", "f", " ", "f", "i", "l", "e">>)
      [] self.variant = "UnexpectedToken" ->
            format_location(self.token.location) \o Str(<<":", " ">>)
                \o format_expected(self.expected_tokens)
                \o Str(<<".", " ", "R", "e", "c", "e", "i", "v", "e", "d", " ", "t", "o", "k", "e", "n", " ">>) \o <<BACKTICK>> \o self.token.value
                \o <<BACKTICK>>
      [] self.variant = "InvalidToken" ->
            format_location(self.token.location) \o Str(<<":", " ">>)
                \o format_expected(self.expected_tokens)
                \o Str(<<".", " ", "R", "e", "c", "e", "i", "v", "e", "d", " ", "i", "n", "v", "a", "l", "i", "d", " ", "t", "o", "k", "e", "n", " ">>) \o <<BACKTICK>> \o self.token.value
                \o <<BACKTICK>>
----------------------------------------------------------------------------
(* Parser (parser/mod.rs).  A call returns Ok with the tokenizer as it      *)
(* leaves it, Err, or Panic.                                                *)

\* the result of unwrap_token, given what next_token returned
unwrapped_token(next) ==
    IF next.kind = "Panic" THEN Panic
    ELSE IF next.kind = "Some"
    THEN [kind |-> "Ok", token |-> next.token, tz |-> next.tz]
    ELSE Err(UnexpectedEndOfFile(Location(next.tz.line, next.tz.column, 1)))

unwrap_token(tz) == unwrapped_token(next_token(tz))

Ok(value, tz) == [kind |-> "Ok", value |-> value, tz |-> tz]

RECURSIVE parse_value(_, _)
RECURSIVE value_of_token(_)
RECURSIVE parse_object_loop(_, _, _)
RECURSIVE object_step(_, _, _)
RECURSIVE object_insert(_, _)
RECURSIVE parse_property(_, _)
RECURSIVE property_colon(_, _)
RECURSIVE property_value(_, _)
RECURSIVE parse_array_loop(_, _, _)
RECURSIVE array_step(_, _, _)
RECURSIVE array_push(_, _)

parse_object(tz) == parse_object_loop(tz, <<>>, TRUE)

parse_array(tz) == parse_array_loop(tz, <<>>, TRUE)

\* parse_value: `tok` is NoneValue or SomeValue(token)
parse_value(tz, tok) ==
    value_of_token(IF tok.some THEN [kind |-> "Ok", token |-> tok.v, tz |-> tz]
                   ELSE unwrap_token(tz))

\* the match of parse_value on the token, u the token unwrapped
value_of_token(u) ==
    IF u.kind # "Ok" THEN u
    ELSE CASE u.token.token_type.type = "Null" -> Ok(ValueNull, u.tz)
           [] u.token.token_type.type = "True" -> Ok(ValueBool(TRUE), u.tz)
           [] u.token.token_type.type = "False" -> Ok(ValueBool(FALSE), u.tz)
           [] u.token.token_type.type = "Number" ->
                Ok(ValueNumber(u.token.token_type.number), u.tz)
           [] u.token.token_type.type = "String" ->
                Ok(ValueString(u.token.token_type.string), u.tz)
           [] u.token.token_type.type = "BeginObject" -> parse_object(u.tz)
           [] u.token.token_type.type = "BeginArray" -> parse_array(u.tz)
           [] u.token.token_type.type = "Invalid" ->
                Err(InvalidToken(u.token,
                    <<"null", "true", "false", "number", "string", "{", "[">>))
           [] OTHER ->
                Err(UnexpectedToken(u.token,
                    <<"null", "true", "false", "number", "string", "{", "[">>))

\* the loop of parse_object
parse_object_loop(tz, properties, had_comma) ==
    object_step(properties, had_comma, unwrap_token(tz))

\* one iteration of the loop of parse_object, u the token unwrapped
object_step(properties, had_comma, u) ==
    IF u.kind # "Ok" THEN u
    ELSE IF had_comma THEN
        IF Len(properties) = 0 /\ u.token.token_type = EndObject
        THEN Ok(ValueObject(properties), u.tz)
        ELSE object_insert(properties, parse_property(u.tz, u.token))
    ELSE CASE u.token.token_type = EndObject -> Ok(ValueObject(properties), u.tz)
           [] u.token.token_type = ValueSeparator ->
                parse_object_loop(u.tz, properties, TRUE)
           [] OTHER -> Err(UnexpectedToken(u.token, <<"}", ",">>))

\* properties.insert(key, value), and the loop goes on
object_insert(properties, property) ==
    IF property.kind # "Ok" THEN property
    ELSE parse_object_loop(property.tz,
            IndexMap_insert(properties, property.key, property.value), FALSE)

parse_property(tz, tok) ==
    IF tok.token_type.type # "String" THEN Err(UnexpectedToken(tok, <<"string">>))
    ELSE property_colon(tok.token_type.string, unwrap_token(tz))

\* a property that takes any token for the ':' after the key
property_colon_unchecked(key, colon) ==
    IF colon.kind # "Ok" THEN colon
    ELSE property_value(key, parse_value(colon.tz, NoneValue))

\* parse_property from the token after the key on
property_colon(key, colon) ==
    IF colon.kind # "Ok" THEN colon
    ELSE IF colon.token.token_type # NameSeparator
    THEN Err(UnexpectedToken(colon.token, <<":">>))
    ELSE property_value(key, parse_value(colon.tz, NoneValue))

\* parse_property from the value on
property_value(key, value) ==
    IF value.kind # "Ok" THEN value
    ELSE [kind |-> "Ok", key |-> key, value |-> value.value, tz |-> value.tz]

\* the loop of parse_array
parse_array_loop(tz, values, had_comma) ==
    array_step(values, had_comma, unwrap_token(tz))

\* an iteration that lets the array end after a comma
array_step_closes_after_comma(values, had_comma, u) ==
    IF u.kind # "Ok" THEN u
    ELSE IF u.token.token_type = EndArray THEN Ok(ValueArray(values), u.tz)
    ELSE IF had_comma THEN array_push(values, parse_value(u.tz, SomeValue(u.token)))
    ELSE IF u.token.token_type = ValueSeparator THEN parse_array_loop(u.tz, values, TRUE)
    ELSE Err(UnexpectedToken(u.token, <<"]", ",">>))

\* one iteration of the loop of parse_array, u the token unwrapped
array_step(values, had_comma, u) ==
    IF u.kind # "Ok" THEN u
    ELSE IF had_comma THEN
        IF Len(values) = 0 /\ u.token.token_type = EndArray
        THEN Ok(ValueArray(values), u.tz)
        ELSE array_push(values, parse_value(u.tz, SomeValue(u.token)))
    ELSE CASE u.token.token_type = EndArray -> Ok(ValueArray(values), u.tz)
           [] u.token.token_type = ValueSeparator ->
                parse_array_loop(u.tz, values, TRUE)
           [] OTHER -> Err(UnexpectedToken(u.token, <<"]", ",">>))

\* values.push(value), and the loop goes on
array_push(values, value) ==
    IF value.kind # "Ok" THEN value
    ELSE parse_array_loop(value.tz, Append(values, value.value), FALSE)

\* the parse of the input, given the tokenizer that was constructed
parse_with(new) ==
    IF new.kind = "Panic" THEN Panic ELSE parse_value(new.tz, NoneValue)

\* parse: the value of the first complete JSON value of the input
parse(json) == parse_with(Tokenizer_new(json))
----------------------------------------------------------------------------
(* Stringifier (stringifier.rs).  `self` is [indent, value, result]; a      *)
(* method returns the stringifier it leaves.  A panic ends the call: the    *)
(* stringifier is Panic from then on, whatever is called on it.             *)

JsonStringifier_new(value) == [kind |-> "Ok", indent |-> 2, value |-> value, result |-> <<>>]

JsonStringifier_indent(self, indent) == [self EXCEPT !.indent = indent]

\* self.result.push(character)
push(self, character) ==
    IF self.kind = "Panic" THEN self
    ELSE [self EXCEPT !.result = Append(self.result, character)]

\* self.result.push_str(str)
push_str(self, str) ==
    IF self.kind = "Panic" THEN self
    ELSE [self EXCEPT !.result = self.result \o str]

get_escaped_character(character) ==
    CASE character = CodePoint["\""] -> SomeValue(Str(<<"\\", "\"">>))
      [] character = CodePoint["\\"] -> SomeValue(Str(<<"\\", "\\">>))
      [] character = BACKSPACE -> SomeValue(Str(<<"\\", "b">>))
      [] character = FORMFEED -> SomeValue(Str(<<"\\", "f">>))
      [] character = LF -> SomeValue(Str(<<"\\", "n">>))
      [] character = CR -> SomeValue(Str(<<"\\", "r">>))
      [] character = TAB -> SomeValue(Str(<<"\\", "t">>))
      [] OTHER -> NoneValue

\* the body of the loop of JsonStringifier::string
push_escaped(self, character, escaped_character) ==
    IF escaped_character.some THEN push_str(self, escaped_character.v)
    ELSE push(self, character)

RECURSIVE string_loop(_, _, _)
\* the loop of JsonStringifier::string, from the i-th character on
string_loop(self, str, i) ==
    IF self.kind = "Panic" \/ i > Len(str) THEN self
    ELSE string_loop(push_escaped(self, str[i], get_escaped_character(str[i])),
                     str, i + 1)

string(self, str) ==
    push(string_loop(push(self, CodePoint["\""]), str, 1), CodePoint["\""])

\* indent_level * self.indent in u8: a panic where the build checks overflow,
\* the product modulo 256 where it does not
indentation(self, indent_level) ==
    IF self.kind = "Panic" THEN self
    ELSE IF indent_level * self.indent > 255 /\ OverflowChecks THEN Panic
    ELSE push_str(self, [i \in 1..((indent_level * self.indent) % 256) |-> CodePoint[" "]])

\* the place of a key in the order of the hasher; a key the hasher does not
\* list comes after those it lists, in the order of the entries
HashRank(object, key) ==
    IF \E r \in 1..Len(hasher) : hasher[r] = key
    THEN CHOOSE r \in 1..Len(hasher) : hasher[r] = key
    ELSE Len(hasher) + (CHOOSE i \in 1..Len(object) : object[i].key = key)

\* HashMap::iter: the entries in the order of the hasher, which is any order
HashMap_iter(object) ==
    [p \in 1..Len(object) |->
        object[CHOOSE i \in 1..Len(object) :
            Cardinality({j \in 1..Len(object) :
                HashRank(object, object[j].key) <= HashRank(object, object[i].key)}) = p]]

\* the comma after every entry but the last
separator(self, idx, len) ==
    IF idx + 1 # len THEN push(self, CodePoint[","]) ELSE self

RECURSIVE stringify_value(_, _, _)
RECURSIVE object_loop(_, _, _, _)
RECURSIVE array_loop(_, _, _, _)

\* the loop of JsonStringifier::object, from the entry idx (counted from 0) on
object_loop(self, entries, idx, indent_level) ==
    IF self.kind = "Panic" \/ idx >= Len(entries) THEN self
    ELSE object_loop(
            push(separator(
                    stringify_value(
                        push_str(string(indentation(self, indent_level + 1),
                                        entries[idx + 1].key),
                                 Str(<<":", " ">>)),
                        entries[idx + 1].value, indent_level + 1),
                    idx, Len(entries)),
                 LF),
            entries, idx + 1, indent_level)

object(self, obj, indent_level) ==
    IF Len(obj) >= 1
    THEN push(indentation(object_loop(push(push(self, CodePoint["{"]), LF),
                                      HashMap_iter(obj), 0, indent_level),
                          indent_level),
              CodePoint["}"])
    ELSE push(push(self, CodePoint["{"]), CodePoint["}"])

\* the loop of JsonStringifier::array, from the element idx (counted from 0) on
array_loop(self, arr, idx, indent_level) ==
    IF self.kind = "Panic" \/ idx >= Len(arr) THEN self
    ELSE array_loop(
            push(separator(
                    stringify_value(indentation(self, indent_level + 1),
                                    arr[idx + 1], indent_level + 1),
                    idx, Len(arr)),
                 LF),
            arr, idx + 1, indent_level)

\* an array written with its line breaks although it has no element
array_always_breaks(self, arr, indent_level) ==
    push(indentation(array_loop(push(push(self, CodePoint["["]), LF),
                                arr, 0, indent_level),
                     indent_level),
         CodePoint["]"])

array(self, arr, indent_level) ==
    IF Len(arr) >= 1
    THEN push(indentation(array_loop(push(push(self, CodePoint["["]), LF),
                                     arr, 0, indent_level),
                          indent_level),
              CodePoint["]"])
    ELSE push(push(self, CodePoint["["]), CodePoint["]"])

\* bool::to_string
bool_to_string(b) ==
    IF b THEN Str(<<"t", "r", "u", "e">>) ELSE Str(<<"f", "a", "l", "s", "e">>)

\* JsonStringifier::value
stringify_value(self, value, indent_level) ==
    CASE value.variant = "Null" -> push_str(self, Str(<<"n", "u", "l", "l">>))
      [] value.variant = "Bool" -> push_str(self, bool_to_string(value.bool))
      [] value.variant = "Number" -> push_str(self, Number_to_string(value.number))
      [] value.variant = "String" -> string(self, value.string)
      [] value.variant = "Object" -> object(self, value.properties, indent_level)
      [] value.variant = "Array" -> array(self, value.values, indent_level)

\* what create returns, given the stringifier after self.value(self.value, 0)
created(done) ==
    IF done.kind = "Panic" THEN Panic ELSE [kind |-> "Ok", text |-> done.result]

\* JsonStringifier::create: the text, or Panic
create(self) == created(stringify_value(self, self.value, 0))
----------------------------------------------------------------------------
(* Inputs *)

RECURSIVE Flatten(_)
\* the concatenation of a sequence of texts
Flatten(texts) == IF Len(texts) = 0 THEN <<>> ELSE Head(texts) \o Flatten(Tail(texts))

RECURSIVE Join(_, _)
\* the texts, with sep between neighbours
Join(texts, sep) ==
    IF Len(texts) = 0 THEN <<>>
    ELSE IF Len(texts) = 1 THEN texts[1]
    ELSE texts[1] \o sep \o Join(Tail(texts), sep)

\* the sequences of at most n members of S
SeqsUpTo(S, n) == UNION {[1..k -> S] : k \in 0..n}

Quoted(body) == <<CodePoint["\""]>> \o body \o <<CodePoint["\""]>>

\* the builds: with overflow checks (debug) and without (release)
Builds == {"debug", "release"}

\* the iteration orders of a HashMap over the keys "a" and "b"
Hashers == {<<Str(<<"a">>), Str(<<"b">>)>>, <<Str(<<"b">>), Str(<<"a">>)>>}

\* the indent widths a caller configures
Indents == {2, 128}

\* the longest input made of lexemes
MaxToks == 3

Lexemes ==
    {Str(<<"[">>), Str(<<"]">>), Str(<<",">>), Str(<<"1">>), Str(<<"x">>), Str(<<" ">>)}

TokenTexts == {Flatten(lexemes) : lexemes \in SeqsUpTo(Lexemes, MaxToks)}

\* the most properties of an object input, the most elements of an array input
MaxProps == 3
MaxElems == 2

Keys == {Str(<<"a">>), Str(<<"b">>)}

PropValues == {Str(<<"1">>), Str(<<"2">>)}

Props == [key : Keys, val : PropValues]

PropText(p) == Quoted(p.key) \o Str(<<":">>) \o p.val

\* the object text of the properties, `tail` before the closing brace
ObjectText(props, tail) ==
    Str(<<"{">>) \o Join([i \in 1..Len(props) |-> PropText(props[i])], Str(<<",">>))
        \o tail \o Str(<<"}">>)

ElemTexts ==
    {Str(<<"1">>), Quoted(Str(<<"a">>)), Str(<<"{", "}">>),
     Str(<<"n", "u", "l", "l">>), Str(<<"[", "1", "]">>)}

\* the array text of the elements, `tail` before the closing bracket
ArrayText(elems, tail) ==
    Str(<<"[">>) \o Join(elems, Str(<<",">>)) \o tail \o Str(<<"]">>)

Tails == {<<>>, Str(<<",">>)}

ObjectTexts == {ObjectText(props, tail) : props \in SeqsUpTo(Props, MaxProps), tail \in Tails}

ArrayTexts == {ArrayText(elems, tail) : elems \in SeqsUpTo(ElemTexts, MaxElems), tail \in Tails}

\* a well-formed text, and what takes the place of one of its tokens
Template ==
    <<Str(<<"{">>), Quoted(Str(<<"a">>)), Str(<<":">>), Str(<<"1">>), Str(<<",">>),
      Quoted(Str(<<"b">>)), Str(<<":">>), Str(<<"[">>), Str(<<"2">>), Str(<<",">>),
      Str(<<"3">>), Str(<<"]">>), Str(<<"}">>)>>

Replacements ==
    {Str(<<"x">>), Str(<<"t", "r", "u">>), Str(<<"1", "e">>), Str(<<"@">>),
     Str(<<"\"", "q">>), Str(<<"]">>), Str(<<"1">>), <<>>}

ReplacedTexts ==
    {Flatten([Template EXCEPT ![i] = r]) : i \in 1..Len(Template), r \in Replacements}

U(hex) == Str(<<"\\", "u">>) \o hex

Samples ==
    {Str(<<"-", "0">>), Str(<<"-", "1">>), Str(<<"0", ".", "5">>), Str(<<"-", "0", ".", "0">>),
     Str(<<"1", "e", "2">>), Str(<<"1", "e", "9", "9", "9">>), Str(<<"-", "1", "e", "9", "9", "9">>),
     Str(<<"1", " ", "2">>), Str(<<"1", "e", "2", "0">>), Str(<<"0", ".", "1">>),
     CharsOf(U64_MAX), CharsOf(NatAddSmall(U64_MAX, 1)),
     Str(<<"t", "r", "u", "e">>), Str(<<"f", "a", "l", "s", "e">>), Str(<<"n", "u", "l", "l">>),
     Quoted(Str(<<"\\", "n">>)), Quoted(Str(<<"a", "\\", "\"", "b">>)),
     Quoted(Str(<<"\\", "\\">>)), Quoted(Str(<<"\\", "/">>)), Quoted(Str(<<"\\", "t", "\\", "r">>)),
     Quoted(U(Str(<<"0", "0", "4", "1">>))),
     Quoted(U(Str(<<"D", "8", "3", "4">>)) \o U(Str(<<"D", "D", "1", "E">>))),
     Quoted(U(Str(<<"D", "8", "0", "0">>)) \o U(Str(<<"0", "0", "4", "1">>))),
     Quoted(U(Str(<<"D", "8", "0", "0">>))),
     Str(<<"[", "[", "1", "]", "]">>), Str(<<"[", "[", "1", ",", "]", "]">>),
     Str(<<"[", "1", " ", "x", "]">>), Str(<<" ">>), Str(<<"{">>), Str(<<"{", "}">>),
     Str(<<"{", "}", "}">>), Str(<<"{", "}", " ", "x">>), Str(<<"{", "x">>),
     Str(<<"{">>) \o Quoted(Str(<<"a">>)),
     Str(<<"{">>) \o Quoted(Str(<<"a">>)) \o Str(<<":">>),
     Str(<<"{">>) \o Quoted(Str(<<"a">>)) \o Str(<<" ", "x">>),
     Str(<<"{">>) \o Quoted(Str(<<"a">>)) \o Str(<<":", "1", " ", "x">>),
     Quoted(Str(<<"\\", "q">>)), Quoted(<<LF>>),
     Str(<<"[">>) \o <<LF>> \o Str(<<"1", ",">>) \o <<LF>> \o Str(<<" ">>),
     Str(<<"{">>) \o <<LF>> \o Quoted(Str(<<"a">>)) \o Str(<<":">>) \o <<LF>>,
     Str(<<"[">>) \o Quoted(<<LF>>) \o Str(<<",", "1", "]">>),
     Quoted(Str(<<"\\", "b", "\\", "f", "x">>)), Quoted(U(Str(<<"0", "0", "0", "0">>))),
     Quoted(U(Str(<<"0", "0", "1", "F">>))),
     Str(<<".", "5">>), Str(<<"[", ".", "5", "]">>), Str(<<"-", ".", "5">>),
     Str(<<"{">>) \o <<LF>> \o Str(<<"x">>), Str(<<"[", "1">>) \o <<CR, LF>> \o Str(<<" ", "}">>),
     Str(<<"[", "1", " ", "2", "]">>), Str(<<"[", "1", "}">>), Str(<<"[", "1", ",", ",", "2", "]">>),
     Str(<<"{">>) \o Quoted(Str(<<"a">>)) \o Str(<<":", "1", "]">>),
     Str(<<"{">>) \o Quoted(Str(<<"a">>)) \o Str(<<":", "1", " ">>) \o Quoted(Str(<<"b">>)) \o Str(<<":", "2", "}">>),
     <<CodePoint["["], EOF>> \o Str(<<"1", "]">>), <<CodePoint["1"], EOF, CodePoint["2"]>>,
     Quoted(U(Str(<<"D", "B", "F", "F">>)) \o U(Str(<<"F", "F", "F", "F">>))),
     Quoted(U(Str(<<"D", "7", "F", "F">>)) \o U(Str(<<"0", "0", "e", "9">>))),
     <<LF>> \o Str(<<"[">>) \o <<LF>> \o Str(<<"1">>) \o <<CR, TAB>> \o Str(<<"]">>) \o <<LF>>,
     Str(<<"{">>) \o Quoted(Str(<<"a">>)) \o Str(<<":", "{">>) \o Quoted(Str(<<"b">>))
        \o Str(<<":", "[", "1", "]", "}", "}">>),
     Str(<<"{">>) \o Quoted(Str(<<"a">>)) \o Str(<<":", "0", ".", "5", ",">>)
        \o Quoted(Str(<<"b">>)) \o Str(<<":", "[", "t", "r", "u", "e", "]", "}">>)}

ParseInputs == TokenTexts \cup ObjectTexts \cup ArrayTexts \cup ReplacedTexts \cup Samples

\* the most pieces of a string input
MaxPieces == 2

HexTexts ==
    {Str(<<"0", "0", "4", "1">>), Str(<<"D", "8", "0", "0">>), Str(<<"D", "8", "3", "4">>),
     Str(<<"d", "b", "f", "f">>), Str(<<"D", "C", "0", "0">>), Str(<<"D", "D", "1", "E">>),
     Str(<<"E", "0", "0", "0">>), Str(<<"1", "2", "g", "4">>)}

Pieces == {U(hex) : hex \in HexTexts} \cup {Str(<<"a">>), Str(<<"\\", "n">>)}

StringTexts ==
    {<<CodePoint["\""]>> \o Flatten(pieces) \o close :
        pieces \in SeqsUpTo(Pieces, MaxPieces), close \in {<<>>, <<CodePoint["\""]>>}}

ScanInputs == (TokenTexts \ {<<>>}) \cup StringTexts \cup (Samples \cup ReplacedTexts)

IntParts ==
    {<<>>, <<0>>, <<2>>, <<2, 0, 0>>, <<0, 0, 7>>,
     <<9,0,0,7,1,9,9,2,5,4,7,4,0,9,9,2>>, <<9,0,0,7,1,9,9,2,5,4,7,4,0,9,9,3>>,
     <<4,5,0,3,5,9,9,6,2,7,3,7,0,4,9,6>>,
     I64_MAX, I64_MIN, NatAddSmall(I64_MIN, 1),
     U64_MAX, NatAddSmall(U64_MAX, 1), NatAddSmall(U64_MAX, 2)}

FracParts ==
    {<<>>, Str(<<".">>), Str(<<".", "0">>), Str(<<".", "5">>), Str(<<".", "2", "2">>),
     Str(<<".", "5", "3", "4">>)}

ExpParts ==
    {<<>>, Str(<<"e", "0">>), Str(<<"e", "2">>), Str(<<"E", "-", "1">>), Str(<<"e", "+", "1">>),
     Str(<<"e", "9", "9", "9">>), Str(<<"e">>)}

Signs == {<<>>, Str(<<"-">>), Str(<<"+">>)}

NumberTexts ==
    {sign \o CharsOf(int) \o frac \o exp :
        sign \in Signs, int \in IntParts, frac \in FracParts, exp \in ExpParts}

----------------------------------------------------------------------------
(* The program: a text is parsed, the value is stringified, the text is     *)
(* parsed again                                                             *)

Nothing == [kind |-> "None"]

Init ==
    /\ build \in Builds
    /\ hasher \in Hashers
    /\ pc = "start"
    /\ input \in ParseInputs
    /\ tokenizer = Nothing
    /\ token = Nothing
    /\ result = Nothing
    /\ text = Nothing
    /\ result2 = Nothing
    /\ number = Nothing

\* what parse returns to the caller: the tokenizer is dropped
Returned(r) ==
    IF r.kind = "Ok" THEN [kind |-> "Ok", value |-> r.value] ELSE r

\* the return of parse(input), r what the parse came to
Parsed(r) ==
    /\ result' = Returned(r)
    /\ tokenizer' = IF r.kind = "Ok" THEN r.tz ELSE Nothing

\* parse(input); `tokenizer` is the tokenizer as parse leaves it
Parse ==
    /\ pc = "start"
    /\ pc' = "parsed"
    /\ Parsed(parse(input))
    /\ UNCHANGED <<build, hasher, input, token, text, result2, number>>

\* value.stringified().indent(indent).create()
Stringify ==
    /\ pc = "parsed"
    /\ result.kind = "Ok"
    /\ \E indent \in Indents :
        text' = [indent |-> indent,
                 created |-> create(JsonStringifier_indent(JsonStringifier_new(result.value),
                                                           indent))]
    /\ pc' = "stringified"
    /\ UNCHANGED <<build, hasher, input, tokenizer, token, result, result2, number>>

\* parse of the text the stringifier created
Reparse ==
    /\ pc = "stringified"
    /\ text.created.kind = "Ok"
    /\ pc' = "reparsed"
    /\ result2' = Returned(parse(text.created.text))
    /\ UNCHANGED <<build, hasher, input, tokenizer, token, result, text, number>>

\* eprintln!("{}", err): the message of the error that parse returned
Report ==
    /\ pc = "parsed"
    /\ result.kind = "Err"
    /\ text' = [message |-> ParseError_fmt(result.error)]
    /\ pc' = "reported"
    /\ UNCHANGED <<build, hasher, input, tokenizer, token, result, result2, number>>

Next == Parse \/ Stringify \/ Reparse \/ Report

Spec == Init /\ [][Next]_vars

----------------------------------------------------------------------------
(* The scanner alone: the tokens of a text, one call of next_token at a time *)

ScanInit ==
    /\ build \in Builds
    /\ hasher = <<>>
    /\ pc = "scan"
    /\ input \in ScanInputs
    /\ tokenizer = Tokenizer_new(input).tz
    /\ token = Nothing
    /\ result = Nothing
    /\ text = Nothing
    /\ result2 = Nothing
    /\ number = Nothing

\* the return of next_token: a panic ends the program
Scanned(next) ==
    IF next.kind = "Panic"
    THEN pc' = "panic" /\ UNCHANGED <<tokenizer, token>>
    ELSE /\ pc' = "scan"
         /\ tokenizer' = next.tz
         /\ token' = IF next.kind = "Some" THEN [kind |-> "Some", v |-> next.token]
                     ELSE [kind |-> "End"]

\* tokenizer.next_token()
NextToken ==
    /\ pc = "scan"
    /\ Scanned(next_token(tokenizer))
    /\ UNCHANGED <<build, hasher, input, result, text, result2, number>>

ScanNext == NextToken

SpecScan == ScanInit /\ [][ScanNext]_vars

----------------------------------------------------------------------------
(* The number classifier alone *)

NumberInit ==
    /\ build = "release"
    /\ hasher = <<>>
    /\ pc = "number"
    /\ input \in NumberTexts
    /\ tokenizer = Nothing
    /\ token = Nothing
    /\ result = Nothing
    /\ text = Nothing
    /\ result2 = Nothing
    /\ number = Nothing

\* the Option that Number::parse returned
Classified(parsed_value) ==
    IF parsed_value.some THEN [kind |-> "Some", v |-> parsed_value.v]
    ELSE [kind |-> "None"]

\* Number::parse(input)
ClassifyNumber ==
    /\ pc = "number"
    /\ pc' = "classified"
    /\ number' = Classified(Number_parse(input))
    /\ UNCHANGED <<build, hasher, input, tokenizer, token, result, text, result2>>

\* number.to_string()
NumberToString ==
    /\ pc = "classified"
    /\ number.kind = "Some"
    /\ pc' = "printed"
    /\ text' = [kind |-> "Ok", text |-> Number_to_string(number.v)]
    /\ UNCHANGED <<build, hasher, input, tokenizer, token, result, result2, number>>

NumberNext == ClassifyNumber \/ NumberToString

SpecNumber == NumberInit /\ [][NumberNext]_vars
----------------------------------------------------------------------------
(* The claims *)

\* what the caller of parse holds after the call returned
ParseReturned == pc = "parsed"

\* C1: parse of the empty input returns Err(UnexpectedEndOfFile) to the
\* caller; it does not panic.
C1_EmptyInputIsEndOfFile ==
    ParseReturned /\ input = <<>> =>
        result.kind = "Err" /\ result.error.variant = "UnexpectedEndOfFile"

\* C2: parse returns Ok only if no token is left after the top-level value:
\* the scanner, as parse leaves it, is at the end of the input.
C2_OkOnlyForWholeInput ==
    ParseReturned /\ result.kind = "Ok" => next_token(tokenizer).kind = "None"

\* The number literal `input` read as mathematics: [sign] digits ['.' digits]
\* [('e'|'E') [sign] digits]
LitStart == IF HasSign(input, 1) THEN 2 ELSE 1

LitNeg == HasMinus(input, 1)

LitIntEnd == DigitRunEnd(input, LitStart)

LitFracEnd ==
    IF LitIntEnd <= Len(input) /\ input[LitIntEnd] = CodePoint["."]
    THEN DigitRunEnd(input, LitIntEnd + 1)
    ELSE LitIntEnd

LitDigits ==
    StripZeros(DigitsOf(SubSeq(input, LitStart, LitIntEnd - 1)
                        \o SubSeq(input, LitIntEnd + 1, LitFracEnd - 1)))

LitHasExp ==
    LitFracEnd <= Len(input) /\ input[LitFracEnd] \in {CodePoint["e"], CodePoint["E"]}

LitExpDigits ==
    SubSeq(input, LitFracEnd + (IF HasSign(input, LitFracEnd + 1) THEN 2 ELSE 1),
           Len(input))

\* the text is a number literal
LitValid ==
    /\ LitFracEnd - LitStart >= 2 \/ (LitFracEnd = LitIntEnd /\ LitIntEnd > LitStart)
    /\ IF LitHasExp THEN AllDigits(LitExpDigits) ELSE LitFracEnd = Len(input) + 1

\* the value of the literal is LitDigits * 10^LitPow, negated where LitNeg
LitPow ==
    (IF ~LitHasExp THEN 0
     ELSE IF HasMinus(input, LitFracEnd + 1) THEN 0 - ExpValue(DigitsOf(LitExpDigits), 0)
     ELSE ExpValue(DigitsOf(LitExpDigits), 0))
    - (IF LitFracEnd > LitIntEnd THEN LitFracEnd - (LitIntEnd + 1) ELSE 0)

\* the value of the literal has no fractional part
LitIsWhole ==
    \/ NatIsZero(LitDigits)
    \/ LitPow >= 0
    \/ NatIsZero(FracPartOf(LitDigits, 0 - LitPow))

\* the magnitude of a whole literal
LitMagnitude ==
    IF NatIsZero(LitDigits) THEN <<0>>
    ELSE IF LitPow >= 0 THEN LitDigits \o Zeros(LitPow)
    ELSE StripZeros(IntPartOf(LitDigits, 0 - LitPow))

LitInU64 ==
    LitIsWhole /\ (NatIsZero(LitDigits) \/ (~LitNeg /\ NatLeq(LitMagnitude, U64_MAX)))

LitInI64 ==
    LitIsWhole /\ NatLeq(LitMagnitude, IF LitNeg THEN I64_MIN ELSE I64_MAX)

\* C3: Number::parse of a literal returns UnsignedInteger where the value of
\* the literal is whole and within u64, otherwise Integer where it is whole
\* and within i64, otherwise Float.
C3_ClassifiedByValue ==
    pc = "classified" /\ LitValid =>
        /\ number.kind = "Some"
        /\ number.v.variant = (IF LitInU64 THEN "UnsingedInteger"
                               ELSE IF LitInI64 THEN "Integer"
                               ELSE "Float")

\* C4: an integer that Number::parse returns is exactly the value of the
\* literal; no literal outside both integer ranges comes back as an integer.
C4_IntegersAreExact ==
    pc = "classified" /\ LitValid /\ number.kind = "Some"
        /\ number.v.variant \in {"UnsingedInteger", "Integer"} =>
            LitIsWhole /\ number.v.int = IntValue(LitNeg, LitMagnitude)

RECURSIVE SameTree(_, _)
\* the two values are equal trees: variant by variant, arrays element by
\* element in order, objects key by key whatever the order of the entries
SameTree(a, b) ==
    /\ a.variant = b.variant
    /\ CASE a.variant = "Array" ->
                /\ Len(a.values) = Len(b.values)
                /\ \A i \in 1..Len(a.values) : SameTree(a.values[i], b.values[i])
         [] a.variant = "Object" ->
                /\ Len(a.properties) = Len(b.properties)
                /\ \A i \in 1..Len(a.properties) :
                    \E j \in 1..Len(b.properties) :
                        /\ a.properties[i].key = b.properties[j].key
                        /\ SameTree(a.properties[i].value, b.properties[j].value)
         [] OTHER -> a = b

\* C5: the text the stringifier creates from a parsed value (default indent)
\* parses, and to a value equal to the one stringified.
C5_RoundTrip ==
    pc = "reparsed" /\ text.indent = 2 =>
        result2.kind = "Ok" /\ SameTree(result2.value, result.value)

\* The \u escapes of a source text: an escape starts at a backslash that an
\* even number of backslashes precedes
BackslashesBefore(raw, i) ==
    CHOOSE n \in 0..(i - 1) :
        /\ \A k \in 1..n : raw[i - k] = CodePoint["\\"]
        /\ n = i - 1 \/ raw[i - n - 1] # CodePoint["\\"]

UEscapeAt(raw, i) ==
    /\ i >= 1
    /\ i + 5 <= Len(raw)
    /\ raw[i] = CodePoint["\\"]
    /\ raw[i + 1] = CodePoint["u"]
    /\ BackslashesBefore(raw, i) % 2 = 0
    /\ \A k \in 2..5 : is_hex_character(raw[i + k])

\* the code point the escape at i writes
UCode(raw, i) ==
    ((HexDigit(raw[i + 2]) * 16 + HexDigit(raw[i + 3])) * 16 + HexDigit(raw[i + 4])) * 16
        + HexDigit(raw[i + 5])

IsHighSurrogate(c) == c >= 55296 /\ c <= 56319

IsLowSurrogate(c) == c >= 56320 /\ c <= 57343

\* the escape at i is a surrogate without its partner
UnpairedSurrogateAt(raw, i) ==
    /\ UEscapeAt(raw, i)
    /\ \/ /\ IsHighSurrogate(UCode(raw, i))
          /\ ~(UEscapeAt(raw, i + 6) /\ IsLowSurrogate(UCode(raw, i + 6)))
       \/ /\ IsLowSurrogate(UCode(raw, i))
          /\ ~(UEscapeAt(raw, i - 6) /\ IsHighSurrogate(UCode(raw, i - 6)))

\* next_token returned a String token
StringScanned == pc = "scan" /\ token.kind = "Some" /\ token.v.token_type.type = "String"

\* C6: a string with a surrogate escape that has no partner is never scanned as
\* a String token, and the scan does not abort on it.
C6_UnpairedSurrogateIsInvalid ==
    /\ pc # "panic"
    /\ StringScanned =>
            \A i \in 1..Len(token.v.value) : ~UnpairedSurrogateAt(token.v.value, i)

\* the input is a string of exactly two \u escapes
TwoEscapes ==
    /\ Len(input) = 14
    /\ input[1] = CodePoint["\""]
    /\ input[14] = CodePoint["\""]
    /\ UEscapeAt(input, 2)
    /\ UEscapeAt(input, 8)

IsSurrogatePair ==
    TwoEscapes /\ IsHighSurrogate(UCode(input, 2)) /\ IsLowSurrogate(UCode(input, 8))

NoSurrogates ==
    /\ TwoEscapes
    /\ ~IsHighSurrogate(UCode(input, 2)) /\ ~IsLowSurrogate(UCode(input, 2))
    /\ ~IsHighSurrogate(UCode(input, 8)) /\ ~IsLowSurrogate(UCode(input, 8))

\* C7: a high surrogate escape followed by a low surrogate escape is scanned as
\* the one character 0x10000 + ((H - 0xD800) << 10) + (L - 0xDC00); two
\* escapes that are no surrogates are scanned as one character each.
C7_SurrogatePairDecoded ==
    /\ IsSurrogatePair \/ NoSurrogates => pc # "panic"
    /\ pc = "scan" /\ token.kind = "Some" /\ IsSurrogatePair =>
            token.v.token_type =
                StringToken(<<65536 + (UCode(input, 2) - 55296) * 1024
                                + (UCode(input, 8) - 56320)>>)
    /\ pc = "scan" /\ token.kind = "Some" /\ NoSurrogates =>
            token.v.token_type = StringToken(<<UCode(input, 2), UCode(input, 8)>>)

\* the pair 𝄞 was scanned as U+1D11E
C7_PairScanned ==
    /\ StringScanned
    /\ IsSurrogatePair
    /\ input = Quoted(U(Str(<<"D", "8", "3", "4">>)) \o U(Str(<<"D", "D", "1", "E">>)))
    /\ token.v.token_type.string = <<119070>>

\* two escapes that are no surrogates were scanned
C7_TwoCharactersScanned ==
    StringScanned /\ NoSurrogates /\ Len(token.v.token_type.string) = 2

\* parse failed on a token
FailedOnToken ==
    ParseReturned /\ result.kind = "Err" /\ result.error.variant # "UnexpectedEndOfFile"

\* C8: the error is InvalidToken exactly when the token parse failed on is an
\* Invalid token, whatever the parser expected there.
C8_InvalidTokenReported ==
    FailedOnToken =>
        (result.error.token.token_type = Invalid <=> result.error.variant = "InvalidToken")

\* The input is a container with at least one entry and a ',' right before
\* its closing bracket: without that ',' it parses to a container with entries
WithoutLastComma == SubSeq(input, 1, Len(input) - 2) \o <<input[Len(input)]>>

IsContainerWithEntries(r, variant) ==
    /\ r.kind = "Ok"
    /\ r.value.variant = variant
    /\ IF variant = "Array" THEN Len(r.value.values) >= 1
       ELSE Len(r.value.properties) >= 1

HasTrailingComma ==
    /\ Len(input) >= 4
    /\ input[Len(input) - 1] = CodePoint[","]
    /\ \/ /\ input[1] = CodePoint["["]
          /\ input[Len(input)] = CodePoint["]"]
          /\ IsContainerWithEntries(parse(WithoutLastComma), "Array")
       \/ /\ input[1] = CodePoint["{"]
          /\ input[Len(input)] = CodePoint["}"]
          /\ IsContainerWithEntries(parse(WithoutLastComma), "Object")

\* C9: a ',' right before the closing bracket of a container with entries
\* makes parse fail with UnexpectedToken on that closing bracket.
C9_TrailingCommaRejected ==
    ParseReturned /\ HasTrailingComma =>
        /\ result.kind = "Err"
        /\ result.error.variant = "UnexpectedToken"
        /\ result.error.token.value = <<input[Len(input)]>>
        /\ result.error.token.token_type =
                (IF input[1] = CodePoint["["] THEN EndArray ELSE EndObject)

\* parse("[1,]") has returned an error
C9_ArrayCommaParsed ==
    ParseReturned /\ HasTrailingComma /\ input = Str(<<"[", "1", ",", "]">>)
        /\ result.kind = "Err"

\* parse('{"a":1,}') has returned an error
C9_ObjectCommaParsed ==
    ParseReturned /\ HasTrailingComma /\ result.kind = "Err"
        /\ input = Str(<<"{", "\"", "a", "\"", ":", "1", ",", "}">>)

\* The input is an object of properties "k":d, k one character and d one
\* digit, separated by commas: property i begins at character 6 * i - 4 and
\* its digit is character 6 * i
FlatCount == (Len(input) - 1) \div 6

FlatKey(i) == <<input[6 * i - 3]>>

FlatValue(i) ==
    ValueNumber(UnsingedInteger(IntValue(FALSE, <<input[6 * i] - CodePoint["0"]>>)))

IsFlatObject ==
    /\ Len(input) >= 7
    /\ Len(input) % 6 = 1
    /\ input[1] = CodePoint["{"]
    /\ \A i \in 1..FlatCount :
        /\ input[6 * i - 4] = CodePoint["\""]
        /\ is_letter(input[6 * i - 3])
        /\ input[6 * i - 2] = CodePoint["\""]
        /\ input[6 * i - 1] = CodePoint[":"]
        /\ IsDigit(input[6 * i])
        /\ input[6 * i + 1] = (IF i = FlatCount THEN CodePoint["}"] ELSE CodePoint[","])

FirstOccurrence(key) ==
    CHOOSE i \in 1..FlatCount : FlatKey(i) = key /\ \A j \in 1..(i - 1) : FlatKey(j) # key

LastOccurrence(key) ==
    CHOOSE i \in 1..FlatCount : FlatKey(i) = key /\ \A j \in (i + 1)..FlatCount : FlatKey(j) # key

\* the entries hold each key of the source once, with the value of its last
\* occurrence, in the order of the first occurrences
LastWriteWins(entries) ==
    /\ \A i \in 1..FlatCount : \E j \in 1..Len(entries) : entries[j].key = FlatKey(i)
    /\ \A j \in 1..Len(entries) :
        /\ \E i \in 1..FlatCount : entries[j].key = FlatKey(i)
        /\ entries[j].value = FlatValue(LastOccurrence(entries[j].key))
        /\ \A k \in (j + 1)..Len(entries) :
            /\ entries[k].key # entries[j].key
            /\ FirstOccurrence(entries[j].key) < FirstOccurrence(entries[k].key)

\* C10: after parsing an object, each key appears once, with the value of its
\* last occurrence and at the place of its first occurrence.
C10_LastWriteWins ==
    ParseReturned /\ IsFlatObject =>
        /\ result.kind = "Ok"
        /\ result.value.variant = "Object"
        /\ LastWriteWins(result.value.properties)

\* parse('{"a":1,"b":2,"a":2}') has returned a, then b
C10_DuplicateParsed ==
    /\ ParseReturned
    /\ IsFlatObject
    /\ FlatCount = 3
    /\ FlatKey(1) = FlatKey(3) /\ FlatKey(1) # FlatKey(2)
    /\ FlatValue(1) # FlatValue(3)
    /\ result.kind = "Ok"
    /\ Len(result.value.properties) = 2
    /\ result.value.properties[1].key = FlatKey(1)
    /\ result.value.properties[1].value = FlatValue(3)

\* the keys of an object value, in the order of its entries
KeysOf(value) == [i \in 1..Len(value.properties) |-> value.properties[i].key]

\* C11: the stringifier writes the entries of an object in the order of the
\* object's entries, so the text parses back to the keys in the same order.
C11_EntriesInInsertionOrder ==
    pc = "reparsed" /\ result.value.variant = "Object" /\ result2.kind = "Ok"
        /\ result2.value.variant = "Object" =>
            KeysOf(result2.value) = KeysOf(result.value)

\* The input ends where the parser requires a token: followed by a text that
\* completes it, it parses, and the parser reads beyond the end of the input
Completions ==
    {Str(<<" ", "1">>), Str(<<" ", "]">>), Str(<<" ", "}">>), Str(<<" ", "1", "]">>),
     Str(<<" ", "1", "}">>), Str(<<" ", ":", "1", "}">>)}

ReadsBeyond(r, len) == r.kind = "Ok" /\ r.tz.position > len

InputEndsEarly ==
    \E c \in Completions : ReadsBeyond(parse_with(Tokenizer_new(input \o c)), Len(input))

\* the line and the column right after the last character of the input
LineBreaks == {i \in 1..Len(input) : input[i] = LF}

LineAfter == 1 + Cardinality(LineBreaks)

ColumnAfter ==
    IF LineBreaks = {} THEN Len(input) + 1
    ELSE Len(input) + 1 - (CHOOSE i \in LineBreaks : \A j \in LineBreaks : j <= i)

\* C12: where the input ends while the parser requires a token, parse fails
\* with UnexpectedEndOfFile, located at the line and column right after the
\* input.
C12_EndOfFileLocated ==
    ParseReturned /\ InputEndsEarly =>
        /\ result.kind = "Err"
        /\ result.error = UnexpectedEndOfFile(Location(LineAfter, ColumnAfter, 1))

\* the same for an input that is not empty
C12_EndOfFileLocatedUnlessEmpty ==
    ParseReturned /\ InputEndsEarly /\ input # <<>> =>
        /\ result.kind = "Err"
        /\ result.error = UnexpectedEndOfFile(Location(LineAfter, ColumnAfter, 1))

\* parse of an input that ends after ':' on its second line has failed
C12_EndAfterLineBreak ==
    /\ ParseReturned /\ InputEndsEarly
    /\ LineAfter = 3
    /\ result.kind = "Err"
    /\ result.error.variant = "UnexpectedEndOfFile"

\* the characters between tokens
Whitespace == {CodePoint[" "], TAB, LF, CR}

\* the number of characters before the first character from position p on
\* that is no whitespace
TokenStart(p) ==
    CHOOSE s \in p..Len(input) :
        /\ \A k \in (p + 1)..s : input[k] \in Whitespace
        /\ s = Len(input) \/ input[s + 1] \notin Whitespace

\* the number of characters up to and including the last line break among
\* the first s characters
LineStart(s) ==
    CHOOSE b \in 0..s :
        /\ b = 0 \/ input[b] \in {LF, CR}
        /\ \A k \in (b + 1)..s : input[k] \notin {LF, CR}

\* a call of next_token that returned a token
TokenReturned == pc = "scan" /\ pc' = "scan" /\ token'.kind = "Some"

\* C13: the location of a token that next_token returns has the column of
\* the token's first character on its line, counted from 1, and the number
\* of characters the token spans as its length.
C13_TokenExtent ==
    [][TokenReturned =>
        /\ token'.v.location.column =
                TokenStart(tokenizer.position) + 1 - LineStart(TokenStart(tokenizer.position))
        /\ token'.v.location.length = tokenizer'.position - TokenStart(tokenizer.position)]_vars

Spaces(n) == [i \in 1..n |-> CodePoint[" "]]

\* the text of a value that is no container, as the stringifier writes it
LeafText(value) == stringify_value(JsonStringifier_new(value), value, 0).result

RECURSIVE Layout(_, _, _)
RECURSIVE LayoutEntries(_, _, _, _, _)
\* the entries from the i-th on, each on its own line after (d + 1) * w
\* spaces, a ',' after each but the last
LayoutEntries(entries, isObject, i, d, w) ==
    IF i > Len(entries) THEN <<>>
    ELSE Spaces((d + 1) * w)
            \o (IF isObject
                THEN LeafText(ValueString(entries[i].key)) \o Str(<<":", " ">>)
                        \o Layout(entries[i].value, d + 1, w)
                ELSE Layout(entries[i], d + 1, w))
            \o (IF i < Len(entries) THEN <<CodePoint[","]>> ELSE <<>>)
            \o <<LF>>
            \o LayoutEntries(entries, isObject, i + 1, d, w)

\* the layout of a value at nesting depth d with the indent width w; the
\* entries of an object in the order in which the stringifier visits them
Layout(value, d, w) ==
    CASE value.variant = "Array" /\ Len(value.values) >= 1 ->
            <<CodePoint["["], LF>> \o LayoutEntries(value.values, FALSE, 1, d, w)
                \o Spaces(d * w) \o <<CodePoint["]"]>>
      [] value.variant = "Object" /\ Len(value.properties) >= 1 ->
            <<CodePoint["{"], LF>>
                \o LayoutEntries(HashMap_iter(value.properties), TRUE, 1, d, w)
                \o Spaces(d * w) \o <<CodePoint["}"]>>
      [] OTHER -> LeafText(value)

\* C14: the stringifier writes each entry of a container at depth d on its own
\* line after (d + 1) * w spaces, a ',' after each but the last, and the
\* closing bracket after d * w spaces, for every indent width w.
C14_Layout ==
    pc = "stringified" =>
        /\ text.created.kind = "Ok"
        /\ text.created.text = Layout(result.value, 0, text.indent)

\* the same for the default indent width
C14_LayoutAtDefaultIndent ==
    pc = "stringified" /\ text.indent = 2 =>
        /\ text.created.kind = "Ok"
        /\ text.created.text = Layout(result.value, 0, text.indent)

\* the two-character escape of a character, or the character itself
Escaped(c) ==
    CASE c = CodePoint["\""] -> Str(<<"\\", "\"">>)
      [] c = CodePoint["\\"] -> Str(<<"\\", "\\">>)
      [] c = BACKSPACE -> Str(<<"\\", "b">>)
      [] c = FORMFEED -> Str(<<"\\", "f">>)
      [] c = LF -> Str(<<"\\", "n">>)
      [] c = CR -> Str(<<"\\", "r">>)
      [] c = TAB -> Str(<<"\\", "t">>)
      [] OTHER -> <<c>>

\* a string value was stringified and the text scanned and parsed again
StringReparsed == pc = "reparsed" /\ result.value.variant = "String"

\* C15: a string is written in double quotes with the seven escapes and every
\* other character unchanged, and that text scans back to the same string.
C15_StringRoundTrip ==
    StringReparsed =>
        /\ text.created.text =
                Quoted(Flatten([i \in 1..Len(result.value.string) |->
                                    Escaped(result.value.string[i])]))
        /\ result2 = [kind |-> "Ok", value |-> ValueString(result.value.string)]

\* the input is an opening bracket, whitespace, and the closing bracket
IsEmptyContainerText(open, close) ==
    /\ Len(input) >= 2
    /\ input[1] = open
    /\ input[Len(input)] = close
    /\ \A i \in 2..(Len(input) - 1) : input[i] \in Whitespace

RECURSIVE EmptyContainers(_, _)
\* the number of containers of the variant without entries in the value
EmptyContainers(value, variant) ==
    CASE value.variant = "Array" ->
            IF Len(value.values) = 0 THEN (IF variant = "Array" THEN 1 ELSE 0)
            ELSE LET n[i \in 0..Len(value.values)] ==
                        IF i = 0 THEN 0
                        ELSE n[i - 1] + EmptyContainers(value.values[i], variant)
                 IN  n[Len(value.values)]
      [] value.variant = "Object" ->
            IF Len(value.properties) = 0 THEN (IF variant = "Object" THEN 1 ELSE 0)
            ELSE LET n[i \in 0..Len(value.properties)] ==
                        IF i = 0 THEN 0
                        ELSE n[i - 1] + EmptyContainers(value.properties[i].value, variant)
                 IN  n[Len(value.properties)]
      [] OTHER -> 0

\* the places of the text where `open` is followed by `close` after k
\* characters of whitespace
BracketPairs(txt, open, close, k) ==
    {i \in 1..(Len(txt) - k - 1) :
        /\ txt[i] = open
        /\ txt[i + k + 1] = close
        /\ \A j \in (i + 1)..(i + k) : txt[j] \in Whitespace}

\* the text holds as many adjacent pairs of the brackets as the value holds
\* empty containers, and no pair with only whitespace between
EmptyRendered(txt, value, variant, open, close) ==
    /\ Cardinality(BracketPairs(txt, open, close, 0)) = EmptyContainers(value, variant)
    /\ \A k \in 1..Len(txt) : BracketPairs(txt, open, close, k) = {}

\* C16: '{}' and '[]', with whitespace between the brackets or none, parse to
\* an Object and an Array without entries, and the stringifier writes every
\* container without entries as '{}' or '[]' with nothing between.
C16_EmptyContainers ==
    /\ ParseReturned /\ IsEmptyContainerText(CodePoint["{"], CodePoint["}"]) =>
            result = [kind |-> "Ok", value |-> ValueObject(<<>>)]
    /\ ParseReturned /\ IsEmptyContainerText(CodePoint["["], CodePoint["]"]) =>
            result = [kind |-> "Ok", value |-> ValueArray(<<>>)]
    /\ pc = "stringified" /\ text.created.kind = "Ok" =>
            /\ EmptyRendered(text.created.text, result.value, "Object",
                             CodePoint["{"], CodePoint["}"])
            /\ EmptyRendered(text.created.text, result.value, "Array",
                             CodePoint["["], CodePoint["]"])

\* an array holding an empty object was written
C16_NestedEmptyWritten ==
    /\ pc = "stringified"
    /\ text.created.kind = "Ok"
    /\ result.value.variant = "Array"
    /\ EmptyContainers(result.value, "Object") = 1
    /\ Cardinality(BracketPairs(text.created.text, CodePoint["{"], CodePoint["}"], 0)) = 1

\* '[ ]' was parsed
C16_SpacedEmptyParsed ==
    /\ ParseReturned
    /\ Len(input) = 3
    /\ IsEmptyContainerText(CodePoint["["], CodePoint["]"])
    /\ result.kind = "Ok"

\* next_token has returned None
EndReturned == pc = "scan" /\ token.kind = "End"

\* C17: once next_token has returned None, every later call returns None
\* again and leaves the position, the line and the column where they were.
C17_EndIsPermanent ==
    [][EndReturned =>
            /\ token'.kind = "End"
            /\ tokenizer'.position = tokenizer.position
            /\ tokenizer'.line = tokenizer.line
            /\ tokenizer'.column = tokenizer.column]_vars

\* None was returned at the end of a text that held tokens, where the
\* next call starts
C17_EndReached ==
    /\ EndReturned
    /\ tokenizer.position >= Len(input)
    /\ tokenizer.position > 0
    /\ next_token(tokenizer).kind = "None"

RECURSIVE TokenTypesFrom(_)
\* the types of the tokens that next_token returns from the tokenizer on,
\* up to the call that returns None or panics
TokenTypesFrom(tz) ==
    LET next == next_token(tz)
    IN  IF next.kind = "Some"
        THEN <<next.token.token_type.type>> \o TokenTypesFrom(next.tz)
        ELSE <<>>

\* the types of the tokens of the input
TokenTypes ==
    IF Len(input) = 0 THEN <<>> ELSE TokenTypesFrom(Tokenizer_new(input).tz)

ScalarTypes == {"Null", "True", "False", "Number", "String"}

RECURSIVE ValueEnd(_, _)
RECURSIVE ElementsEnd(_, _)
RECURSIVE MembersEnd(_, _)

\* the index after the value that starts at token i, 0 where the tokens from
\* i on do not start with a value of the grammar
ValueEnd(toks, i) ==
    IF i > Len(toks) THEN 0
    ELSE CASE toks[i] \in ScalarTypes -> i + 1
           [] toks[i] = "BeginArray" ->
                IF i + 1 <= Len(toks) /\ toks[i + 1] = "EndArray" THEN i + 2
                ELSE ElementsEnd(toks, i + 1)
           [] toks[i] = "BeginObject" ->
                IF i + 1 <= Len(toks) /\ toks[i + 1] = "EndObject" THEN i + 2
                ELSE MembersEnd(toks, i + 1)
           [] OTHER -> 0

\* value (',' value)* ']' from token i on
ElementsEnd(toks, i) ==
    LET j == ValueEnd(toks, i)
    IN  IF j = 0 \/ j > Len(toks) THEN 0
        ELSE IF toks[j] = "EndArray" THEN j + 1
        ELSE IF toks[j] = "ValueSeparator" THEN ElementsEnd(toks, j + 1)
        ELSE 0

\* string ':' value (',' string ':' value)* '}' from token i on
MembersEnd(toks, i) ==
    IF i + 1 > Len(toks) \/ toks[i] # "String" \/ toks[i + 1] # "NameSeparator"
    THEN 0
    ELSE LET j == ValueEnd(toks, i + 2)
         IN  IF j = 0 \/ j > Len(toks) THEN 0
             ELSE IF toks[j] = "EndObject" THEN j + 1
             ELSE IF toks[j] = "ValueSeparator" THEN MembersEnd(toks, j + 1)
             ELSE 0

\* parse returned for an input whose first token opens a container
ContainerParsed ==
    /\ ParseReturned
    /\ Len(TokenTypes) > 0
    /\ TokenTypes[1] \in {"BeginArray", "BeginObject"}

\* C18: parse returns a value for an array or an object exactly when its
\* tokens are '[' ']' or '[' value (',' value)* ']', or '{' '}' or
\* '{' string ':' value (',' string ':' value)* '}'; for every other
\* continuation it returns Err.
C18_ContainerGrammar ==
    ContainerParsed =>
        /\ result.kind \in {"Ok", "Err"}
        /\ result.kind = "Ok" <=> ValueEnd(TokenTypes, 1) # 0

\* an object of two properties, one of them a container, was accepted
C18_NestedAccepted ==
    /\ ContainerParsed
    /\ result.kind = "Ok"
    /\ result.value.variant = "Object"
    /\ Len(result.value.properties) = 2
    /\ \E i \in 1..2 : result.value.properties[i].value.variant \in {"Array", "Object"}

\* an object whose key is not followed by ':' was rejected
C18_MissingColonRejected ==
    /\ ContainerParsed
    /\ result.kind = "Err"
    /\ Len(TokenTypes) >= 3
    /\ TokenTypes[1] = "BeginObject"
    /\ TokenTypes[2] = "String"
    /\ TokenTypes[3] # "NameSeparator"

\* the first character of the token that the call returns
FirstCharacter == input[TokenStart(tokenizer.position) + 1]

NumberStarts ==
    {CodePoint["-"], CodePoint["+"]} \cup (CodePoint["0"]..CodePoint["9"])

\* C19: a Number token starts with a digit, '-' or '+'; a '.' where a token
\* starts is returned as an Invalid token of that one character.
C19_NumberStart ==
    [][TokenReturned =>
        /\ token'.v.token_type.type = "Number" => FirstCharacter \in NumberStarts
        /\ FirstCharacter = CodePoint["."] =>
                /\ token'.v.token_type = Invalid
                /\ token'.v.value = <<CodePoint["."]>>
                /\ tokenizer'.position = TokenStart(tokenizer.position) + 1]_vars

\* C20: next_token returns None only with the cursor at the end of the
\* characters: a character of the input that starts no token of another
\* kind, U+0000 among them, is returned as an Invalid token and does not end
\* the scan.
C20_NoneOnlyAtEnd ==
    EndReturned => tokenizer.position >= Len(input)

\* the name of a token type among the expected kinds
KindName(type) ==
    CASE type = "Null" -> "null"
      [] type = "True" -> "true"
      [] type = "False" -> "false"
      [] type = "Number" -> "number"
      [] type = "String" -> "string"
      [] type = "BeginObject" -> "{"
      [] type = "EndObject" -> "}"
      [] type = "BeginArray" -> "["
      [] type = "EndArray" -> "]"
      [] type = "ValueSeparator" -> ","
      [] type = "NameSeparator" -> ":"
      [] OTHER -> "invalid"

ValueKinds == {"null", "true", "false", "number", "string", "{", "["}

\* The places of the grammar, innermost last: where a value is required
\* ("Value", after ',' in an array "ArrayNext", after ':' "ObjValue"), right
\* after '[' or '{', after an entry, after ',' in an object, after a key.
AcceptedAt(place) ==
    CASE place \in {"Value", "ArrayNext", "ObjValue"} -> ValueKinds
      [] place = "ArrayFirst" -> ValueKinds \cup {"]"}
      [] place = "ArrayAfter" -> {",", "]"}
      [] place = "ObjFirst" -> {"string", "}"}
      [] place = "ObjKey" -> {"string"}
      [] place = "ObjColon" -> {":"}
      [] place = "ObjAfter" -> {",", "}"}
      [] OTHER -> {}

Replaced(places, place) == SubSeq(places, 1, Len(places) - 1) \o <<place>>

\* the places once the value required at the innermost place is complete
Completed(places) ==
    CASE places[Len(places)] \in {"ArrayFirst", "ArrayNext"} -> Replaced(places, "ArrayAfter")
      [] places[Len(places)] = "ObjValue" -> Replaced(places, "ObjAfter")
      [] OTHER -> Replaced(places, "Done")

\* the places after a token of an accepted kind
PlacesAfter(places, kind) ==
    CASE kind = "[" -> Append(places, "ArrayFirst")
      [] kind = "{" -> Append(places, "ObjFirst")
      [] kind \in {"]", "}"} -> Completed(SubSeq(places, 1, Len(places) - 1))
      [] kind = "," ->
            Replaced(places, IF places[Len(places)] = "ArrayAfter" THEN "ArrayNext" ELSE "ObjKey")
      [] kind = ":" -> Replaced(places, "ObjValue")
      [] kind = "string" /\ places[Len(places)] \in {"ObjFirst", "ObjKey"} ->
            Replaced(places, "ObjColon")
      [] OTHER -> Completed(places)

RECURSIVE FailureFrom(_, _, _)
\* the first token from the i-th on that the grammar does not accept, with
\* the place where it stands; index 0 where every token is accepted
FailureFrom(toks, places, i) ==
    IF i > Len(toks) \/ places[Len(places)] = "Done" THEN [index |-> 0, place |-> "Done"]
    ELSE IF KindName(toks[i]) \in AcceptedAt(places[Len(places)])
    THEN FailureFrom(toks, PlacesAfter(places, KindName(toks[i])), i + 1)
    ELSE [index |-> i, place |-> places[Len(places)]]

Failure == FailureFrom(TokenTypes, <<"Value">>, 1)

ExpectedKinds == {result.error.expected_tokens[i] : i \in 1..Len(result.error.expected_tokens)}

\* C21: the expected kinds of an UnexpectedToken or InvalidToken error hold
\* every kind of token that the grammar accepts where the token stands: the
\* value kinds and ']' right after '[', string and '}' right after '{', ','
\* and the closer after an entry, ':' after a key.
C21_ExpectedKindsComplete ==
    FailedOnToken =>
        /\ Failure.index > 0
        /\ result.error.token.token_type.type = TokenTypes[Failure.index]
        /\ AcceptedAt(Failure.place) \subseteq ExpectedKinds

\* the same but for the token right after an opening bracket
C21_ExpectedKindsUnlessFirst ==
    FailedOnToken =>
        /\ Failure.index > 0
        /\ result.error.token.token_type.type = TokenTypes[Failure.index]
        /\ Failure.place \notin {"ArrayFirst", "ObjFirst"} =>
                AcceptedAt(Failure.place) = ExpectedKinds
        /\ Failure.place = "ArrayFirst" => ExpectedKinds = ValueKinds
        /\ Failure.place = "ObjFirst" => ExpectedKinds = {"string"}

\* one more than the number of '\n' and '\r' among the first n characters
LineOf(n) == 1 + Cardinality({i \in 1..n : input[i] \in {LF, CR}})

\* C22: the line of a token that next_token returns is one more than the
\* number of '\n' and '\r' characters before the token, between tokens or
\* inside an earlier string; so is the line that an end of input is
\* reported with.
C22_LineTracking ==
    [][pc = "scan" /\ pc' = "scan" =>
        /\ token'.kind = "Some" =>
                token'.v.location.line = LineOf(TokenStart(tokenizer.position))
        /\ token'.kind = "End" => tokenizer'.line = LineOf(tokenizer'.position)]_vars

\* C23: parse of an input that is not empty returns Ok or Err, and the
\* scanner yields at most as many tokens as the input has characters before
\* it returns None.
C23_ParseReturns ==
    ParseReturned /\ input # <<>> =>
        /\ result.kind \in {"Ok", "Err"}
        /\ Len(TokenTypes) <= Len(input)

\* the same where the build does not check integer overflow
C23_ParseReturnsInRelease ==
    ParseReturned /\ input # <<>> /\ ~OverflowChecks =>
        /\ result.kind \in {"Ok", "Err"}
        /\ Len(TokenTypes) <= Len(input)

\* every call of next_token that returns a token moves the cursor on
C23_TokenAdvances ==
    [][TokenReturned => tokenizer'.position > tokenizer.position]_vars

\* the error that parse returned was written out
Reported == pc = "reported" /\ result.error.variant \in {"UnexpectedToken", "InvalidToken"}

\* the part occurs in the message from position i on
OccursAt(message, i, part) ==
    /\ i + Len(part) - 1 <= Len(message)
    /\ \A k \in 1..Len(part) : message[i + k - 1] = part[k]

InBackticks(name) == <<BACKTICK>> \o expected_token_chars(name) \o <<BACKTICK>>

\* the kinds in backticks, ', ' between them but ' or ' between the last two
KindList(kinds) ==
    IF Len(kinds) = 1 THEN InBackticks(kinds[1])
    ELSE Join([i \in 1..(Len(kinds) - 1) |-> InBackticks(kinds[i])], Str(<<",", " ">>))
            \o Str(<<" ", "o", "r", " ">>) \o InBackticks(kinds[Len(kinds)])

LocationHeader(location) ==
    Str(<<"P", "a", "r", "s", "i", "n", "g", " ", "E", "r", "r", "o", "r", " ", "o", "n", " ", "l", "i", "n", "e", " ">>) \o CharsOf(IntDigits(location.line))
        \o Str(<<" ", "c", "o", "l", "u", "m", "n", " ">>) \o CharsOf(IntDigits(location.column))

\* the first position from `from` on where the part occurs in the message,
\* 0 where it occurs nowhere
FirstAt(message, from, part) ==
    IF from = 0 \/ \A i \in from..Len(message) : ~OccursAt(message, i, part) THEN 0
    ELSE CHOOSE i \in from..Len(message) :
            /\ OccursAt(message, i, part)
            /\ \A j \in from..(i - 1) : ~OccursAt(message, j, part)

\* the position behind the first occurrence, 0 where there is none
Behind(message, from, part) ==
    IF FirstAt(message, from, part) = 0 THEN 0
    ELSE FirstAt(message, from, part) + Len(part)

\* the message holds the header, then 'Expected' and the kinds, then the text
\* of the token
RenderedAsClaimed ==
    LET header == LocationHeader(result.error.token.location)
        expected == Str(<<"E", "x", "p", "e", "c", "t", "e", "d", " ">>) \o KindList(result.error.expected_tokens)
    IN  FirstAt(text.message,
                Behind(text.message, Behind(text.message, 1, header), expected),
                result.error.token.value) > 0

\* C24: the message of an UnexpectedToken or InvalidToken error is the
\* header 'Parsing Error on line L column C' of the token, then 'Expected'
\* and the expected kinds in backticks, ', ' between them and ' or ' only
\* between the last two, a single kind without separator, then the text of
\* the token.
C24_Rendered ==
    Reported => RenderedAsClaimed

\* the same for errors with two expected kinds or more
C24_RenderedUnlessSingle ==
    Reported /\ Len(result.error.expected_tokens) > 1 => RenderedAsClaimed

====
